---- MODULE Spec2Model ----
(***************************************************************************)
(* The petals shard index: the indexer (DataBlooming), the path trie with  *)
(* lazily loaded filters (Trie), the recursive query evaluator             *)
(* (execute_query_v2) and the framed request server (PetalsServer).        *)
(*                                                                         *)
(* Spec is the index build followed by the server; FairSpec adds the       *)
(* fairness of the event loop and TimedSpec that of the read timeout;      *)
(* QuerySpec is the index build followed by the main program of bloom.py,  *)
(* which loads the index and runs one query; FrameSpec serializes a        *)
(* message with to_xml and parses the result with parse_message; TrieSpec  *)
(* is a client of the Trie that inserts and then searches; LiveSpec is the *)
(* index build write by write beside a server started at any moment;       *)
(* IndexSpec is the index build of one column of every dtype,              *)
(* OtherConditionSpec the main program on a query whose condition is no    *)
(* known one, ChunkSpec the server reading one frame in every chunking,    *)
(* ClientSpec one call of Client.send_message of bloom_db/client.py.       *)
(*                                                                         *)
(* A Python str is a sequence of one-character strings, so that join,      *)
(* dirname, lower, split and fnmatch are computed character by character.  *)
(***************************************************************************)
EXTENDS Integers, Sequences, FiniteSets, TLC

(* ------------------------------------------------------------------ *)
(* Bounds of the model                                                 *)
(* ------------------------------------------------------------------ *)

\* longest rules list of an internal query node that a request carries
MaxRules == 2

\* range_filter_threshold the indexer is constructed with
Threshold == 1

\* longest payload of a text message whose round trip is followed
MaxPayload == 2

\* most rows of the column whose filter selection is followed
MaxRows == 2

\* most calls of Trie.insert that a client of the Trie makes
MaxInserts == 3

\* most connection attempts Client.send_message is constructed with
MaxRetries == 2

(* ------------------------------------------------------------------ *)
(* Python strings and paths                                            *)
(* ------------------------------------------------------------------ *)

\* str.lower on one character of the alphabet the model uses
LowerChar(ch) ==
    CASE ch = "A" -> "a"
      [] ch = "B" -> "b"
      [] ch = "C" -> "c"
      [] ch = "K" -> "k"
      [] OTHER -> ch

RECURSIVE StrLower(_)
StrLower(s) ==
    IF s = <<>> THEN <<>> ELSE <<LowerChar(Head(s))>> \o StrLower(Tail(s))

\* iterating over a str yields its one-character strings
RECURSIVE Chars(_)
Chars(s) ==
    IF s = <<>> THEN <<>> ELSE <<(<<Head(s)>>)>> \o Chars(Tail(s))

\* sep.join(parts), parts a sequence of strings
RECURSIVE StrJoin(_, _)
StrJoin(sep, parts) ==
    IF parts = <<>> THEN <<>>
    ELSE IF Len(parts) = 1 THEN Head(parts)
    ELSE Head(parts) \o sep \o StrJoin(sep, Tail(parts))

Slash == <<"/">>

\* index of the last "/" of p, 0 when there is none (str.rfind + 1)
RECURSIVE LastSlash(_)
LastSlash(p) ==
    IF p = <<>> THEN 0
    ELSE IF p[Len(p)] = "/" THEN Len(p)
    ELSE LastSlash(SubSeq(p, 1, Len(p) - 1))

RECURSIVE RStripSlash(_)
RStripSlash(p) ==
    IF p # <<>> /\ p[Len(p)] = "/" THEN RStripSlash(SubSeq(p, 1, Len(p) - 1)) ELSE p

\* os.path.dirname: the head up to the last slash, trailing slashes removed
\* unless the head is made of slashes only
Dirname(p) ==
    LET head == SubSeq(p, 1, LastSlash(p))
    IN  IF head # <<>> /\ (\E i \in 1..Len(head) : head[i] # "/")
        THEN RStripSlash(head)
        ELSE head

\* s.split(".")[0]
RECURSIVE BeforeDot(_)
BeforeDot(s) ==
    IF s = <<>> \/ Head(s) = "." THEN <<>> ELSE <<Head(s)>> \o BeforeDot(Tail(s))

EndsWith(s, suffix) ==
    /\ Len(suffix) <= Len(s)
    /\ SubSeq(s, Len(s) - Len(suffix) + 1, Len(s)) = suffix

\* fnmatch.fnmatchcase for patterns made of literals, "*" and "?"
RECURSIVE FnmatchCase(_, _)
FnmatchCase(name, pat) ==
    IF pat = <<>> THEN name = <<>>
    ELSE IF Head(pat) = "*"
         THEN FnmatchCase(name, Tail(pat))
              \/ (name # <<>> /\ FnmatchCase(Tail(name), pat))
    ELSE IF name = <<>> THEN FALSE
    ELSE (Head(pat) = "?" \/ Head(pat) = Head(name))
         /\ FnmatchCase(Tail(name), Tail(pat))

DigitChar(d) ==
    CASE d = 0 -> "0" [] d = 1 -> "1" [] d = 2 -> "2" [] d = 3 -> "3"
      [] d = 4 -> "4" [] d = 5 -> "5" [] d = 6 -> "6" [] d = 7 -> "7"
      [] d = 8 -> "8" [] OTHER -> "9"

\* str(n) of a non-negative integer
RECURSIVE IntToStr(_)
IntToStr(n) ==
    IF n < 10 THEN <<DigitChar(n)>> ELSE IntToStr(n \div 10) \o <<DigitChar(n % 10)>>

\* A value of a DataFrame cell or of a query leaf: a str or an integer.
StrVal(s) == [k |-> "str", s |-> s]
IntVal(n) == [k |-> "int", n |-> n]

\* str(item)
PyStr(item) == IF item.k = "str" THEN item.s ELSE IntToStr(item.n)

DotPickle == <<".", "p", "i", "c", "k", "l", "e">>
DotParquet == <<".", "p", "a", "r", "q", "u", "e", "t">>
StarDotPickle == <<"*">> \o DotPickle

(* ------------------------------------------------------------------ *)
(* State                                                               *)
(* ------------------------------------------------------------------ *)

VARIABLES
    posix,      \* os.path.normcase is the identity (POSIX) or lower-cases (Windows)
    parquet,    \* the input directory: shard file name -> DataFrame
    todo,       \* shard files that index_files has not processed yet
    disk,       \* the index directory: <<shard_id, file>> -> pickled filter_data
    trie,       \* the singleton Trie: path of segments -> TrieNode
    phase,      \* "build" until the index directory was loaded into the trie, then "loaded"
    conn,       \* the connections: id -> state of its handle_echo task
    run,        \* the query the main program of bloom.py executed, with its outcome
    trip,       \* a message on its way through to_xml and parse_message
    api,        \* the calls a client of the Trie made: its inserts, its search
    job,        \* where index_files stands inside index_file
    loads,      \* file path -> the calls of load_bloom_filter on it, and those that
                \* returned a filter
    client      \* one call of Client.send_message: where it stands, what it did

vars == <<posix, parquet, todo, disk, trie, phase, conn, run, trip, api, job, loads, client>>

None == [type |-> "None"]

\* a file_path of None
NoPath == <<>>

(* ------------------------------------------------------------------ *)
(* The input data                                                      *)
(* ------------------------------------------------------------------ *)

Col(name, dtype, rows) == [name |-> name, dtype |-> dtype, rows |-> rows]

ColC == <<"c">>
ColCN == <<"c", "n">>
ColK == <<"K">>
ValX == StrVal(<<"x">>)
ValY == StrVal(<<"y">>)

\* a text column, a text column beside an integer column of many values whose
\* name starts with the text column's, an integer column of one value, a
\* column with an upper-case name
DataFrames ==
    { <<Col(ColC, "object", <<ValX, ValY>>)>>,
      <<Col(ColC, "object", <<ValX>>), Col(ColCN, "int64", <<IntVal(1), IntVal(2), IntVal(3)>>)>>,
      <<Col(ColCN, "int64", <<IntVal(1)>>)>>,
      <<Col(ColK, "object", <<ValX>>)>> }


ShardA0 == <<"A", "0">>
ShardA1 == <<"A", "1">>
ShardB0 == <<"B", "0">>
FileA0 == ShardA0 \o DotParquet
FileA1 == ShardA1 \o DotParquet
FileB0 == ShardB0 \o DotParquet

\* a second shard file beside A0: A1 with the text column of two values, or
\* B0 with a text column of one value
SecondShards ==
    { (FileA1 :> <<Col(ColC, "object", <<ValX, ValY>>)>>),
      (FileB0 :> <<Col(ColC, "object", <<ValX>>)>>) }

\* the input directories the model starts from: the shard file A0 alone, or
\* with a second shard file
Datasets ==
    { (FileA0 :> df) : df \in DataFrames }
    \cup { (FileA0 :> df) @@ second : df \in DataFrames, second \in SecondShards }

\* strings a Bloom filter may accept although they were never added
FalsePositiveCandidates == {<<"y">>}

(* ------------------------------------------------------------------ *)
(* DataBlooming: the indexer                                           *)
(* ------------------------------------------------------------------ *)

range_filter_threshold == Threshold

SeqRange(s) == {s[i] : i \in 1..Len(s)}

MinOf(S) == CHOOSE m \in S : \A x \in S : m <= x
MaxOf(S) == CHOOSE m \in S : \A x \in S : x <= m

\* the filter_data index_file builds for one column; fp are the strings the
\* Bloom filter accepts by hash collision
FilterData(col, fp) ==
    IF col.dtype \in {"float64", "int64", "datetime64[ns]"}
       /\ Cardinality(SeqRange(col.rows)) > range_filter_threshold
    THEN [type |-> "range",
          min |-> MinOf({v.n : v \in SeqRange(col.rows)}),
          max |-> MaxOf({v.n : v \in SeqRange(col.rows)})]
    ELSE [type |-> "bloom",
          filter |-> {PyStr(v) : v \in SeqRange(col.rows)} \cup fp]

\* _create_bloom_path: <output_dir>/<basename(file_path).split(".")[0]>
CreateBloomPath(file_path) == BeforeDot(file_path)

\* the loop of index_file over df.columns, from column i on
RECURSIVE WriteColumns(_, _, _, _, _)
WriteColumns(d, bloom_path, df, fps, i) ==
    IF i > Len(df) THEN d
    ELSE LET filter_file_path == <<bloom_path, StrLower(df[i].name) \o DotPickle>>
         IN  WriteColumns((filter_file_path :> FilterData(df[i], fps[i])) @@ d,
                          bloom_path, df, fps, i + 1)

\* index_file(file_path, bloom_path)
IndexFileResult(d, file_path, fps) ==
    WriteColumns(d, CreateBloomPath(file_path), parquet[file_path], fps, 1)

(* ------------------------------------------------------------------ *)
(* Trie                                                                *)
(* ------------------------------------------------------------------ *)

TrieNode(file_path) ==
    [end_of_file |-> FALSE, bloom_filter |-> None, file_path |-> file_path]

EmptyTrie == (<<>> :> TrieNode(NoPath))

\* a file that open(file_path, "wb") created or emptied and that holds at most
\* the beginning of a pickle: pickle.load raises on it
Truncated == [type |-> "truncated"]

\* Trie.load_bloom_filter: the unpickled file, None when it cannot be read
LoadBloomFilter(path) ==
    IF path \in DOMAIN disk /\ disk[path] # Truncated THEN disk[path] ELSE None

\* the walk of insert along path: a missing node is created as TrieNode(file_path)
RECURSIVE InsertWalk(_, _, _, _)
InsertWalk(t, path, file_path, i) ==
    IF i > Len(path) THEN t
    ELSE LET p == SubSeq(path, 1, i)
         IN  InsertWalk(IF p \in DOMAIN t THEN t ELSE (p :> TrieNode(file_path)) @@ t,
                        path, file_path, i + 1)

\* Trie.insert(path, file_path)
Insert(t, path, file_path) ==
    LET w == InsertWalk(t, path, file_path, 1)
    IN  [w EXCEPT ![path] =
            IF file_path # NoPath
            THEN [end_of_file |-> TRUE,
                  bloom_filter |-> LoadBloomFilter(file_path),
                  file_path |-> file_path]
            ELSE [@ EXCEPT !.end_of_file = TRUE]]

\* os.path.normcase
Normcase(s) == IF posix THEN s ELSE StrLower(s)

\* fnmatch.fnmatch(name, pat)
Fnmatch(name, pat) == FnmatchCase(Normcase(name), Normcase(pat))

\* the keys of node.children for the node at path p
ChildParts(t, p) ==
    {q[Len(q)] : q \in {r \in DOMAIN t : Len(r) = Len(p) + 1 /\ SubSeq(r, 1, Len(p)) = p}}

\* _dfs_search: the paths of the terminal nodes that the search reaches
RECURSIVE DfsSearch(_, _, _, _)
DfsSearch(t, path, index, current_path) ==
    IF index = Len(path)
    THEN IF t[current_path].end_of_file THEN {current_path} ELSE {}
    ELSE UNION { DfsSearch(t, path, index + 1, Append(current_path, child_part)) :
                 child_part \in {c \in ChildParts(t, current_path) :
                                    Fnmatch(c, path[index + 1])} }

\* a faulty search: the filter a search loads is not kept in the node
TrieAfterSearchNoCache(t, hit) == t

\* a faulty search: every node the search reaches is loaded again
TrieAfterSearchReload(t, hit) ==
    [p \in DOMAIN t |->
        IF p \in hit
        THEN [t[p] EXCEPT !.bloom_filter = LoadBloomFilter(t[p].file_path)]
        ELSE t[p]]

\* a faulty search: it loads every terminal node of the trie that holds no
\* filter, reached or not
TrieAfterSearchLoadAll(t, hit) ==
    [p \in DOMAIN t |->
        IF t[p].end_of_file /\ t[p].bloom_filter = None
        THEN [t[p] EXCEPT !.bloom_filter = LoadBloomFilter(t[p].file_path)]
        ELSE t[p]]

\* the trie after a search reached the terminal nodes hit: each of them whose
\* bloom_filter is None got load_bloom_filter(node.file_path)
TrieAfterSearch(t, hit) ==
    IF \A p \in hit : t[p].bloom_filter # None THEN t
    ELSE [p \in DOMAIN t |->
            IF p \in hit /\ t[p].bloom_filter = None
            THEN [t[p] EXCEPT !.bloom_filter = LoadBloomFilter(t[p].file_path)]
            ELSE t[p]]

\* Trie.search(path): results are the pairs (dirname of the joined path,
\* bloom_filter), trie is the trie the search leaves
Search(t, path) ==
    LET hit == DfsSearch(t, path, 0, <<>>)
        after == TrieAfterSearch(t, hit)
    IN  [results |-> {<<Dirname(StrJoin(Slash, p)), after[p].bloom_filter>> : p \in hit},
         trie |-> after]

\* no call of load_bloom_filter was made
NoLoads == <<>>

LoadCount(l, path) ==
    IF path \in DOMAIN l THEN l[path] ELSE [calls |-> 0, loaded |-> 0]

\* the log after one more call load_bloom_filter(path)
LoadCall(l, path) ==
    (path :> [calls |-> LoadCount(l, path).calls + 1,
              loaded |-> LoadCount(l, path).loaded
                         + (IF LoadBloomFilter(path) # None THEN 1 ELSE 0)]) @@ l

\* the terminal nodes on which the search of path calls load_bloom_filter:
\* those it reaches whose bloom_filter is None
SearchLoads(t, path) ==
    { p \in DfsSearch(t, path, 0, <<>>) : t[p].bloom_filter = None }

\* the log after load_bloom_filter(node.file_path) for each of the nodes
RECURSIVE CountLoads(_, _, _)
CountLoadsAt(l, t, nodes, p) == CountLoads(LoadCall(l, t[p].file_path), t, nodes \ {p})
CountLoads(l, t, nodes) ==
    IF nodes = {} THEN l ELSE CountLoadsAt(l, t, nodes, CHOOSE p \in nodes : TRUE)

(* ------------------------------------------------------------------ *)
(* execute_query_v2                                                    *)
(* ------------------------------------------------------------------ *)

Leaf(column, value) == [column |-> column, value |-> value]
Node(condition, rules) == [condition |-> condition, rules |-> rules]

\* what a call of execute_query_v2 leaves: the exception it raised ("" when it
\* returned), the set it returned and the trie after its searches
Outcome(err, files, t) == [err |-> err, files |-> files, trie |-> t]

\* the pattern a leaf searches
LeafPattern(source, files, column) == <<source, files, column \o StarDotPickle>>

\* the id a leaf adds for a search result: os.path.dirname('/'.join(path)),
\* where path is the str that Trie.search returned
MatchingFile(path) == Dirname(StrJoin(Slash, Chars(path)))

\* filter_data['min'] <= value <= filter_data['max'] raises TypeError when
\* value is a str: the bounds are numbers
RangeRaises(filter_data, value) == value.k = "str"

RangeTest(filter_data, value) ==
    filter_data.min <= value.n /\ value.n <= filter_data.max

\* value in filter_data['filter'] (the Bloom filter hashes str(value))
BloomTest(filter_data, value) == PyStr(value) \in filter_data.filter

\* the loop of the base case over the results of the search
LeafResult(searched, value) ==
    LET bloom_filters == {r \in searched.results : r[2] # None}
    IN  IF \E r \in bloom_filters : r[2].type = "range" /\ RangeRaises(r[2], value)
        THEN Outcome("TypeError", {}, searched.trie)
        ELSE Outcome("",
                     {MatchingFile(r[1]) : r \in {r \in bloom_filters :
                         \/ r[2].type = "bloom" /\ BloomTest(r[2], value)
                         \/ r[2].type = "range" /\ RangeTest(r[2], value)}},
                     searched.trie)

\* the base case: a simple rule
LeafOutcome(query, source, files, t) ==
    LeafResult(Search(t, LeafPattern(source, files, query.column)), query.value)

\* Faulty folds.  Each breaks one property of the fold below; a property that
\* still held with the faulty fold in place would not depend on the fold.
\* the rule's result is dropped: the node returns its first rule's result
CombineKeepFirst(condition, matching_files, rule_files) == matching_files

\* the operations of AND and OR are exchanged
CombineSwapped(condition, matching_files, rule_files) ==
    IF condition = "AND" THEN matching_files \cup rule_files
    ELSE IF condition = "OR" THEN matching_files \cap rule_files
    ELSE matching_files

\* the accumulated result is dropped: the node returns its last rule's result
CombineKeepLast(condition, matching_files, rule_files) == rule_files

\* one pass of the loop over rules[1:]
Combine(condition, matching_files, rule_files) ==
    IF condition = "AND" THEN matching_files \cap rule_files
    ELSE IF condition = "OR" THEN matching_files \cup rule_files
    ELSE matching_files

RECURSIVE ExecuteQueryV2(_, _, _, _)
RECURSIVE RulesLoop(_, _, _, _, _)

\* the loop over rules[1:], at rule i, acc the outcome so far
RulesLoop(query, source, files, i, acc) ==
    IF i > Len(query.rules) THEN acc
    ELSE LET rule_files == ExecuteQueryV2(query.rules[i], source, files, acc.trie)
         IN  IF rule_files.err # "" THEN rule_files
             ELSE RulesLoop(query, source, files, i + 1,
                            Outcome("",
                                    Combine(query.condition, acc.files, rule_files.files),
                                    rule_files.trie))

ExecuteQueryV2(query, source, files, t) ==
    IF "column" \in DOMAIN query /\ "value" \in DOMAIN query
    THEN LeafOutcome(query, source, files, t)
    ELSE IF ~({"condition", "rules"} \subseteq DOMAIN query)
    THEN \* query['condition'] or query['rules'] raises
         Outcome("KeyError", {}, t)
    ELSE LET first == IF query.rules # <<>>
                      THEN ExecuteQueryV2(query.rules[1], source, files, t)
                      ELSE Outcome("", {}, t)
         IN  IF first.err # "" THEN first
             ELSE RulesLoop(query, source, files, 2, first)

\* the log of load_bloom_filter after execute_query_v2: each base case
\* searches, and the loop stops at the first rule that raises
RECURSIVE QueryLoads(_, _, _, _, _)
RECURSIVE RulesLoads(_, _, _, _, _, _)

RulesLoads(query, source, files, i, t, l) ==
    IF i > Len(query.rules) THEN l
    ELSE IF ExecuteQueryV2(query.rules[i], source, files, t).err # ""
    THEN QueryLoads(query.rules[i], source, files, t, l)
    ELSE RulesLoads(query, source, files, i + 1,
                    ExecuteQueryV2(query.rules[i], source, files, t).trie,
                    QueryLoads(query.rules[i], source, files, t, l))

QueryLoads(query, source, files, t, l) ==
    IF \A p \in DOMAIN t : t[p].end_of_file => t[p].bloom_filter # None
    THEN \* no search finds a bloom_filter that is None
         l
    ELSE IF "column" \in DOMAIN query /\ "value" \in DOMAIN query
    THEN CountLoads(l, t, SearchLoads(t, LeafPattern(source, files, query.column)))
    ELSE IF ~({"condition", "rules"} \subseteq DOMAIN query)
    THEN l
    ELSE RulesLoads(query, source, files, 1, t, l)

(* ------------------------------------------------------------------ *)
(* bloom_db/explorer.py: the other version of execute_query_v2         *)
(* ------------------------------------------------------------------ *)

\* explorer.Trie.search(path): results are the pairs (current_path,
\* bloom_filter), current_path being the list of the segments
ExplorerSearch(t, path) ==
    LET hit == DfsSearch(t, path, 0, <<>>)
        after == TrieAfterSearch(t, hit)
    IN  [results |-> {<<p, after[p].bloom_filter>> : p \in hit}, trie |-> after]

\* the loop of the base case: os.path.dirname('/'.join(path)) of the list
ExplorerLeafResult(searched, value) ==
    LET bloom_filters == {r \in searched.results : r[2] # None}
    IN  IF \E r \in bloom_filters : r[2].type = "range" /\ RangeRaises(r[2], value)
        THEN Outcome("TypeError", {}, searched.trie)
        ELSE Outcome("",
                     {Dirname(StrJoin(Slash, r[1])) : r \in {r \in bloom_filters :
                         \/ r[2].type = "bloom" /\ BloomTest(r[2], value)
                         \/ r[2].type = "range" /\ RangeTest(r[2], value)}},
                     searched.trie)

RECURSIVE ExplorerExecuteQueryV2(_, _, _, _)
RECURSIVE ExplorerRulesLoop(_, _, _, _, _)

\* the loop over rules[1:]; each call takes Trie() anew, the same singleton
ExplorerRulesLoop(query, source, files, i, acc) ==
    IF i > Len(query.rules) THEN acc
    ELSE LET rule_files == ExplorerExecuteQueryV2(query.rules[i], source, files, acc.trie)
         IN  IF rule_files.err # "" THEN rule_files
             ELSE ExplorerRulesLoop(query, source, files, i + 1,
                                    Outcome("",
                                            Combine(query.condition, acc.files, rule_files.files),
                                            rule_files.trie))

ExplorerExecuteQueryV2(query, source, files, t) ==
    IF "column" \in DOMAIN query /\ "value" \in DOMAIN query
    THEN ExplorerLeafResult(ExplorerSearch(t, LeafPattern(source, files, query.column)),
                            query.value)
    ELSE IF ~({"condition", "rules"} \subseteq DOMAIN query)
    THEN Outcome("KeyError", {}, t)
    ELSE LET first == IF query.rules # <<>>
                      THEN ExplorerExecuteQueryV2(query.rules[1], source, files, t)
                      ELSE Outcome("", {}, t)
         IN  IF first.err # "" THEN first
             ELSE ExplorerRulesLoop(query, source, files, 2, first)

(* ------------------------------------------------------------------ *)
(* The wire: frames, JSON documents, handlers                          *)
(* ------------------------------------------------------------------ *)

\* The byte stream of a connection is a sequence of tokens: an opening tag, a
\* run of character data, a closing tag.  A chunk carries whole tokens; a
\* chunk boundary inside a token leaves the buffer without a closing tag at
\* its end, as the boundary before the token does.
OpenTag(cls, format) == [t |-> "open", cls |-> cls, format |-> format]
CloseTag(cls) == [t |-> "close", cls |-> cls]
Text(text) == [t |-> "text", text |-> text]

\* character data that is the text of the JSON document doc (json.dumps(doc))
JsonText(doc) == [kind |-> "json", doc |-> doc]
\* character data that is no JSON document
RawText(s) == [kind |-> "raw", s |-> s]
\* character data that is the base64 encoding of the UTF-8 bytes of s
B64Text(s) == [kind |-> "base64", s |-> s]

\* JSON documents
JObject(fields) == [j |-> "object", fields |-> fields]
JString(s) == [j |-> "string", s |-> s]
JArray(elems) == [j |-> "array", elems |-> elems]

\* a reply has no format attribute
NoFormat == "None"

\* self.handlers after server.py registered its handlers
Handlers == {"search", "ping"}

Source == <<"b">>
FilesPatterns == {<<"*">>, <<"A", "*">>}

Leaves ==
    { Leaf(ColC, ValX), Leaf(ColC, ValY), Leaf(ColC, StrVal(<<"1">>)),
      Leaf(ColCN, StrVal(<<"2">>)), Leaf(ColCN, IntVal(2)), Leaf(ColK, ValX) }

Conditions == {"AND", "OR"}

\* the simple rules that the rules lists of internal nodes are made of
RuleLeaves ==
    { Leaf(ColC, ValX), Leaf(ColC, ValY),
      Leaf(ColCN, StrVal(<<"2">>)), Leaf(ColCN, IntVal(2)) }

RuleLists == UNION { [1..n -> RuleLeaves] : n \in 0..MaxRules }

\* queries whose rules are internal nodes
NestedQueries ==
    { Node(c, <<Node(d, <<Leaf(ColC, ValX), Leaf(ColCN, IntVal(2))>>), Leaf(ColC, ValY)>>) :
      c \in Conditions, d \in Conditions }

Queries == Leaves \cup { Node(c, r) : c \in Conditions, r \in RuleLists } \cup NestedQueries

SearchInput(source, files, query) ==
    JObject([bloom_source |-> source, files |-> files, query |-> query])

Frame(cls, format, text) == <<OpenTag(cls, format), Text(text), CloseTag(cls)>>

\* the queries of the search requests that clients send
ServerQueries ==
    { Leaf(ColC, ValX),
      Leaf(ColCN, StrVal(<<"2">>)),
      Node("AND", <<Leaf(ColC, ValX), Leaf(ColC, ValY)>>),
      Node("OR", <<Leaf(ColC, ValX), Leaf(ColCN, IntVal(2))>>) }

SearchFrames ==
    { Frame("search", "json", JsonText(SearchInput(Source, <<"*">>, q))) : q \in ServerQueries }

PingFrame == Frame("ping", "text", RawText(<<"h", "i">>))

\* <ping format="json"></ping>: a ping without character data
EmptyPingFrame == <<OpenTag("ping", "json"), CloseTag("ping")>>

\* pings whose payload decodes
DecodablePingFrames ==
    { PingFrame,
      Frame("ping", "json", JsonText(JString(<<"h", "i">>))),
      Frame("ping", "base64", B64Text(<<"h", "i">>)) }

\* frames whose payload does not decode in the format they declare
UndecodableFrames ==
    { Frame("ping", "json", RawText(<<"h", "i">>)),
      Frame("search", "base64", RawText(<<"h", "i">>)) }

\* searches whose payload is no search input: a JSON string, an object without
\* its query, a search sent as text
InvalidSearchFrames ==
    { Frame("search", "json", JsonText(JString(<<"x">>))),
      Frame("search", "json", JsonText(JObject([bloom_source |-> Source, files |-> <<"*">>]))),
      Frame("search", "text", RawText(<<"h", "i">>)) }

\* a search whose query has a column and neither value nor condition nor rules
BrokenQueryFrame ==
    Frame("search", "json", JsonText(SearchInput(Source, <<"*">>, [column |-> ColC])))

\* a frame of a class without a handler
UnknownClassFrame == Frame("bloom", "text", RawText(<<"h", "i">>))

\* two requests sent back to back
PipelinedFrames == PingFrame \o PingFrame

\* the byte streams a client sends
Streams ==
    SearchFrames \cup DecodablePingFrames \cup UndecodableFrames \cup InvalidSearchFrames
    \cup { EmptyPingFrame, BrokenQueryFrame, UnknownClassFrame, PipelinedFrames }

\* buffer.endswith("</" + message_type + ">") for a registered message_type
EndsWithKnownTag(buffer) ==
    /\ buffer # <<>>
    /\ buffer[Len(buffer)].t = "close"
    /\ buffer[Len(buffer)].cls \in Handlers

\* ET.fromstring accepts the buffer: one element holding at most one text,
\* and after the text at most one empty child element
WellFormed(buffer) ==
    /\ Len(buffer) \in {2, 3, 5}
    /\ buffer[1].t = "open"
    /\ buffer[Len(buffer)].t = "close"
    /\ buffer[Len(buffer)].cls = buffer[1].cls
    /\ Len(buffer) >= 3 => buffer[2].t = "text"
    /\ Len(buffer) = 5 =>
          /\ buffer[3].t = "open"
          /\ buffer[4].t = "close"
          /\ buffer[4].cls = buffer[3].cls

\* the exception parse_message raises on a well-formed buffer, "" when none:
\* root.text is None without character data; json.loads rejects text that is
\* no JSON document; base64.b64decode rejects text whose length without
\* padding is no multiple of four
ParseRaises(buffer) ==
    IF Len(buffer) = 2 THEN "AttributeError"
    ELSE IF buffer[1].format = "json" /\ buffer[2].text.kind # "json"
         THEN "JSONDecodeError"
    ELSE IF /\ buffer[1].format = "base64"
            /\ buffer[2].text.kind = "raw"
            /\ Len(buffer[2].text.s) % 4 # 0
         THEN "binascii.Error"
    ELSE ""

\* parse_message(buffer), for a well-formed buffer it does not raise on
ParseMessage(buffer) ==
    [cls |-> buffer[1].cls,
     format |-> buffer[1].format,
     payload |-> IF buffer[1].format = "json"
                 THEN buffer[2].text.doc
                 ELSE \* the text itself, or the string that the base64 text
                      \* encodes
                      JString(buffer[2].text.s)]

\* search_handler's validation of message.payload
ValidSearchInput(search_input) ==
    /\ search_input.j = "object"
    /\ {"bloom_source", "files", "query"} \subseteq DOMAIN search_input.fields

\* a faulty handler: a search that fails the validation is answered like a
\* search that matched nothing
SearchHandlerEmptyResult(message, t) ==
    IF ~ValidSearchInput(message.payload)
    THEN [err |-> "", result |-> JArray({}), trie |-> t]
    ELSE LET si == message.payload.fields
             o == ExecuteQueryV2(si.query, si.bloom_source, si.files, t)
         IN  [err |-> o.err, result |-> JArray(o.files), trie |-> o.trie]

\* search_handler before ensure_json_output: the outcome of the query and the
\* value the handler returns
SearchHandler(message, t) ==
    IF ~ValidSearchInput(message.payload)
    THEN [err |-> "", result |-> JObject([error |-> "Invalid search_input"]), trie |-> t]
    ELSE LET si == message.payload.fields
             o == ExecuteQueryV2(si.query, si.bloom_source, si.files, t)
         IN  [err |-> o.err, result |-> JArray(o.files), trie |-> o.trie]

\* ping_handler before ensure_json_output
PingHandler(message, t) ==
    [err |-> "", result |-> JString("alive"), trie |-> t]

\* ensure_json_output: a str result becomes {"response": result}; the result
\* is then serialized with json.dumps
EnsureJsonOutput(result) ==
    JsonText(IF result.j = "string" THEN JObject([response |-> result.s]) ELSE result)

\* await self.handlers[message.cls](message)
RunHandler(message, t) ==
    LET h == IF message.cls = "search" THEN SearchHandler(message, t)
             ELSE PingHandler(message, t)
    IN  [err |-> h.err,
         response |-> IF h.err = "" THEN EnsureJsonOutput(h.result) ELSE RawText(<<>>),
         trie |-> h.trie]

\* a faulty reply: the tags do not carry the class of the request
ReplyOtherClass(cls, response) ==
    <<OpenTag("message", NoFormat), Text(response), CloseTag("message")>>

\* the bytes of writer.write(f"<{cls}>{response}</{cls}>")
Reply(cls, response) == <<OpenTag(cls, NoFormat), Text(response), CloseTag(cls)>>

(* ------------------------------------------------------------------ *)
(* TCPMessage.to_xml and parse_message, character by character         *)
(* ------------------------------------------------------------------ *)

TCPMessage(cls, format, payload) == [cls |-> cls, format |-> format, payload |-> payload]

Quote == "\""

\* the characters of the payloads: a letter, the XML special characters, a
\* blank
PayloadChars == {"a", "&", "<", ">", " "}

PayloadStrings == UNION { [1..n -> PayloadChars] : n \in 0..MaxPayload }

\* payloads that are JSON texts: string literals
JsonPayloads == { <<Quote>> \o s \o <<Quote>> : s \in PayloadStrings }

\* payloads that are base64 texts: the encodings of 'hi', 'a' and 'aha'
Base64Payloads ==
    { <<"a", "G", "k", "=">>, <<"Y", "Q", "=", "=">>, <<"Y", "W", "h", "h">> }

Messages ==
    { TCPMessage(cls, "text", p) : cls \in Handlers, p \in PayloadStrings }
    \cup { TCPMessage(cls, "json", p) : cls \in Handlers, p \in JsonPayloads }
    \cup { TCPMessage(cls, "base64", p) : cls \in Handlers, p \in Base64Payloads }

\* the replacement of one character by xml.sax.saxutils.escape and by
\* ElementTree's _escape_cdata: both replace &, < and >
EscapeChar(ch) ==
    IF ch = "&" THEN <<"&", "a", "m", "p", ";">>
    ELSE IF ch = "<" THEN <<"&", "l", "t", ";">>
    ELSE IF ch = ">" THEN <<"&", "g", "t", ";">>
    ELSE <<ch>>

\* xml.sax.saxutils.escape(data)
RECURSIVE Escape(_)
Escape(data) ==
    IF data = <<>> THEN <<>> ELSE EscapeChar(Head(data)) \o Escape(Tail(data))

\* ElementTree's serialization of the text of an element
RECURSIVE EscapeCdata(_)
EscapeCdata(text) ==
    IF text = <<>> THEN <<>> ELSE EscapeChar(Head(text)) \o EscapeCdata(Tail(text))

\* the XML string of an element with a format attribute: its tag, the value of
\* the attribute, and the characters between its tags; without characters
\* the element is written <tag format="..." />
Element(tag, format, chars) == [tag |-> tag, format |-> format, chars |-> chars]

\* TCPMessage.to_xml: root.text = escape(self.payload), then ET.tostring
ToXml(m) == Element(m.cls, m.format, EscapeCdata(Escape(m.payload)))

StartsWith(s, prefix) ==
    Len(s) >= Len(prefix) /\ SubSeq(s, 1, Len(prefix)) = prefix

\* the parser's replacement of the entity references in character data
RECURSIVE Unescape(_)
Unescape(chars) ==
    IF chars = <<>> THEN <<>>
    ELSE IF StartsWith(chars, <<"&", "a", "m", "p", ";">>)
         THEN <<"&">> \o Unescape(SubSeq(chars, 6, Len(chars)))
    ELSE IF StartsWith(chars, <<"&", "l", "t", ";">>)
         THEN <<"<">> \o Unescape(SubSeq(chars, 5, Len(chars)))
    ELSE IF StartsWith(chars, <<"&", "g", "t", ";">>)
         THEN <<">">> \o Unescape(SubSeq(chars, 5, Len(chars)))
    ELSE <<Head(chars)>> \o Unescape(Tail(chars))

\* str.strip() for the blank
RECURSIVE LStrip(_)
LStrip(s) == IF s # <<>> /\ Head(s) = " " THEN LStrip(Tail(s)) ELSE s

RECURSIVE RStrip(_)
RStrip(s) ==
    IF s # <<>> /\ s[Len(s)] = " " THEN RStrip(SubSeq(s, 1, Len(s) - 1)) ELSE s

Strip(s) == RStrip(LStrip(s))

\* json.loads(s) for a text without backslash: the str of a string literal;
\* any other text of these characters raises
JsonLoads(s) ==
    IF /\ Len(s) >= 2
       /\ s[1] = Quote
       /\ s[Len(s)] = Quote
       /\ \A i \in 2..Len(s) - 1 : s[i] # Quote
    THEN [err |-> "", value |-> SubSeq(s, 2, Len(s) - 1)]
    ELSE [err |-> "JSONDecodeError", value |-> <<>>]

UpperCase ==
    <<"A", "B", "C", "D", "E", "F", "G", "H", "I", "J", "K", "L", "M",
      "N", "O", "P", "Q", "R", "S", "T", "U", "V", "W", "X", "Y", "Z">>

LowerCase ==
    <<"a", "b", "c", "d", "e", "f", "g", "h", "i", "j", "k", "l", "m",
      "n", "o", "p", "q", "r", "s", "t", "u", "v", "w", "x", "y", "z">>

\* the value of a letter of the base64 alphabet
B64Index(ch) ==
    IF \E i \in 1..26 : UpperCase[i] = ch
    THEN (CHOOSE i \in 1..26 : UpperCase[i] = ch) - 1
    ELSE (CHOOSE i \in 1..26 : LowerCase[i] = ch) + 25

\* bytes.decode('utf-8') of one byte that is an ASCII letter
Chr(byte) ==
    IF byte \in 65..90 THEN UpperCase[byte - 64] ELSE LowerCase[byte - 96]

\* base64.b64decode of one group of four characters, then decode('utf-8')
B64Group(g) ==
    LET pad == IF g[3] = "=" THEN 2 ELSE IF g[4] = "=" THEN 1 ELSE 0
        v(i) == IF g[i] = "=" THEN 0 ELSE B64Index(g[i])
        bits == ((v(1) * 64 + v(2)) * 64 + v(3)) * 64 + v(4)
        bytes == <<bits \div 65536, (bits \div 256) % 256, bits % 256>>
    IN  [i \in 1..3 - pad |-> Chr(bytes[i])]

\* base64.b64decode(s).decode('utf-8') for a text of whole groups of letters
\* and padding
RECURSIVE B64Decode(_)
B64Decode(s) ==
    IF s = <<>> THEN <<>>
    ELSE B64Group(SubSeq(s, 1, 4)) \o B64Decode(SubSeq(s, 5, Len(s)))

\* what parse_message raises or returns for the XML string of one element
ParseMessageXml(xml) ==
    IF xml.chars = <<>>
    THEN \* root.text is None
         [err |-> "AttributeError", message |-> TCPMessage(xml.tag, xml.format, <<>>)]
    ELSE LET payload == Strip(Unescape(xml.chars))
         IN  IF xml.format = "json"
             THEN [err |-> JsonLoads(payload).err,
                   message |-> TCPMessage(xml.tag, xml.format, JsonLoads(payload).value)]
             ELSE IF xml.format = "base64"
             THEN [err |-> "",
                   message |-> TCPMessage(xml.tag, xml.format, B64Decode(payload))]
             ELSE [err |-> "", message |-> TCPMessage(xml.tag, xml.format, payload)]

NoMessage == TCPMessage("", "", <<>>)
NoXml == Element("", "", <<>>)

\* no message is on its way
NoTrip == [stage |-> "none", m |-> NoMessage, xml |-> NoXml,
           parsed |-> [err |-> "", message |-> NoMessage]]

(* ------------------------------------------------------------------ *)
(* PetalsServer                                                        *)
(* ------------------------------------------------------------------ *)

Conns == {"c1", "c2"}

NoMsg == [cls |-> "", format |-> "", payload |-> JString(<<>>)]

\* a connection: pc is where its handle_echo task stands ("idle": not yet
\* accepted, "reading": in the read loop, "eof": in the read loop with the
\* stream at its end, where every read returns b'' at once, "drain": at await
\* writer.drain(), "done": the task ended); buffer is the task's buffer (empty
\* again once the read loop was left by a timeout), out the writes of the
\* server, closed whether the server closed the transport, msg the message
\* handed to a handler, exc the exception that ended the task
ConnState(pc, buffer, out, closed, msg, exc) ==
    [pc |-> pc, buffer |-> buffer, out |-> out,
     closed |-> closed, msg |-> msg, exc |-> exc]

IdleConn == ConnState("idle", <<>>, <<>>, FALSE, NoMsg, "")

\* the chunks the client can send next: the buffer stays a prefix of one of
\* the byte streams
NextChunks(buffer) ==
    UNION { { SubSeq(s, Len(buffer) + 1, j) : j \in Len(buffer) + 1..Len(s) } :
            s \in {x \in Streams : Len(x) > Len(buffer) /\ SubSeq(x, 1, Len(buffer)) = buffer} }

\* every order of a finite set
RECURSIVE Orders(_)
Orders(S) ==
    IF S = {} THEN {<<>>}
    ELSE UNION { { <<x>> \o o : o \in Orders(S \ {x}) } : x \in S }

\* the orders in which os.walk can yield the files of the index directory:
\* the files of one directory come together
WalkOrders(d) ==
    { o \in Orders({p \in DOMAIN d : EndsWith(p[2], DotPickle)}) :
        \A i, j, k \in 1..Len(o) :
            (i < j /\ j < k /\ o[i][1] = o[k][1]) => o[j][1] = o[i][1] }

\* the log of load_bloom_filter after the loop of load_bloom_filters: each
\* insert loads the file it was given
RECURSIVE InsertAllLoads(_, _, _)
InsertAllLoads(l, order, i) ==
    IF i > Len(order) THEN l
    ELSE InsertAllLoads(LoadCall(l, order[i]), order, i + 1)

\* the loop of load_bloom_filters over the walk
RECURSIVE InsertAll(_, _, _, _)
InsertAll(t, bloom_source, order, i) ==
    IF i > Len(order) THEN t
    ELSE InsertAll(Insert(t, <<bloom_source>> \o order[i], order[i]),
                   bloom_source, order, i + 1)

(* ------------------------------------------------------------------ *)
(* Actions                                                             *)
(* ------------------------------------------------------------------ *)

NoRun == [query |-> Leaf(<<>>, StrVal(<<>>)), files |-> <<>>, outcome |-> Outcome("", {}, EmptyTrie)]

\* no call of the Trie was made
NoApi == [inserts |-> <<>>, searched |-> FALSE, path |-> <<>>, hit |-> {}, results |-> {}]

\* index_files before its first pass: it is not inside index_file (file is the
\* shard file of the pass, column the index of the column being written, open
\* whether _write_pickle stands between open and the end of pickle.dump), the
\* output directory does not exist (root) and index_files neither raised nor
\* was killed (ended)
NoJob == [file |-> <<>>, column |-> 0, open |-> FALSE, root |-> FALSE, ended |-> ""]

\* Client.send_message was not called: pc is where the call stands ("idle",
\* "connect": at asyncio.open_connection, "read": in the read loop, "sleep":
\* at asyncio.sleep in the except clause, "done": the call ended), attempt
\* the loop variable, opened the calls of open_connection, caught the
\* exceptions the except clause caught, slept the seconds of its sleeps,
\* stream what the server of this attempt writes before it closes, result
\* "returned" or the exception that left the call
NoClient ==
    [pc |-> "idle", message |-> NoMessage, retries |-> 0, alias |-> FALSE,
     attempt |-> 0, opened |-> 0, caught |-> <<>>, slept |-> <<>>,
     stream |-> <<>>, buffer |-> <<>>, result |-> "", response |-> RawText(<<>>)]

Init ==
    /\ posix \in BOOLEAN
    /\ parquet \in Datasets
    /\ todo = DOMAIN parquet
    /\ disk = <<>>
    /\ trie = EmptyTrie
    /\ phase = "build"
    /\ conn = [c \in Conns |-> IdleConn]
    /\ run = NoRun
    /\ trip = NoTrip
    /\ api = NoApi
    /\ job = NoJob
    /\ loads = NoLoads
    /\ client = NoClient

\* one pass of the loop of index_files: index_file on the next shard file
IndexFile(f) ==
    /\ phase = "build"
    /\ f \in todo
    /\ \E fps \in [1..Len(parquet[f]) -> SUBSET FalsePositiveCandidates] :
          disk' = IndexFileResult(disk, f, fps)
    /\ todo' = todo \ {f}
    /\ UNCHANGED <<posix, parquet, trie, phase, conn, run, trip, api, job, loads, client>>

\* server start: load_bloom_filters(root_directory, bloom_source)
LoadBloomFilters ==
    /\ phase = "build"
    /\ todo = {}
    /\ \E order \in WalkOrders(disk) :
          /\ trie' = InsertAll(trie, Source, order, 1)
          /\ loads' = InsertAllLoads(loads, order, 1)
    /\ phase' = "loaded"
    /\ UNCHANGED <<posix, parquet, todo, disk, conn, run, trip, api, job, client>>

\* the main program of bloom.py: load_file_paths(root_directory, bloom_source)
LoadFilePaths ==
    /\ phase = "build"
    /\ todo = {}
    /\ \E order \in WalkOrders(disk) :
          /\ trie' = InsertAll(trie, Source, order, 1)
          /\ loads' = InsertAllLoads(loads, order, 1)
    /\ phase' = "loaded"
    /\ UNCHANGED <<posix, parquet, todo, disk, conn, run, trip, api, job, client>>

\* the main program of bloom.py: execute_query_v2(query, bloom_source, files)
ExecuteQuery(query, files) ==
    /\ phase = "loaded"
    /\ run = NoRun
    /\ LET o == ExecuteQueryV2(query, Source, files, trie)
       IN  /\ run' = [query |-> query, files |-> files, outcome |-> o]
           /\ trie' = o.trie
    /\ loads' = QueryLoads(query, Source, files, trie, loads)
    /\ UNCHANGED <<posix, parquet, todo, disk, phase, conn, trip, api, job, client>>

\* asyncio.start_server accepts a connection and starts handle_echo
Accept(c) ==
    /\ phase = "loaded"
    /\ conn[c].pc = "idle"
    /\ conn' = [conn EXCEPT ![c].pc = "reading"]
    /\ UNCHANGED <<posix, parquet, todo, disk, trie, phase, run, trip, api, job, loads, client>>

\* a read that returns a chunk after which the buffer does not end with the
\* closing tag of a registered class: the loop goes on
ReadChunk(c, chunk) ==
    /\ conn[c].pc = "reading"
    /\ ~EndsWithKnownTag(conn[c].buffer \o chunk)
    /\ conn' = [conn EXCEPT ![c].buffer = @ \o chunk]
    /\ UNCHANGED <<posix, parquet, todo, disk, trie, phase, run, trip, api, job, loads, client>>

\* the state of the task after the read loop broke with this buffer, up to its
\* next suspension point: parse_message, the handler, writer.write
AfterBreak(buffer, t) ==
    IF ~WellFormed(buffer)
    THEN \* ET.ParseError: logged, return
         [conn |-> ConnState("done", buffer, <<>>, FALSE, NoMsg, ""), trie |-> t]
    ELSE IF ParseRaises(buffer) # ""
    THEN [conn |-> ConnState("done", buffer, <<>>, FALSE, NoMsg, ParseRaises(buffer)),
          trie |-> t]
    ELSE LET message == ParseMessage(buffer)
             h == RunHandler(message, t)
         IN  IF message.cls \notin Handlers
             THEN [conn |-> ConnState("drain", buffer, <<>>, FALSE, NoMsg, ""), trie |-> t]
             ELSE IF h.err # ""
             THEN [conn |-> ConnState("done", buffer, <<>>, FALSE, message, h.err),
                   trie |-> h.trie]
             ELSE [conn |-> ConnState("drain", buffer,
                                      <<Reply(message.cls, h.response)>>, FALSE, message, ""),
                   trie |-> h.trie]

\* the log of load_bloom_filter after the task ran on from the break of the
\* read loop: the searches of search_handler load
LoadsAfterBreak(buffer, t, l) ==
    IF ~WellFormed(buffer) \/ ParseRaises(buffer) # "" THEN l
    ELSE IF ParseMessage(buffer).cls # "search"
            \/ ~ValidSearchInput(ParseMessage(buffer).payload)
    THEN l
    ELSE QueryLoads(ParseMessage(buffer).payload.fields.query,
                    ParseMessage(buffer).payload.fields.bloom_source,
                    ParseMessage(buffer).payload.fields.files, t, l)

\* a read after which the buffer ends with the closing tag of a registered
\* class: the loop breaks and the task runs on to await writer.drain() or to
\* its end.  Whether the transport of a task that ended with an exception is
\* closed depends on the asyncio version.
ReadLast(c, chunk) ==
    /\ conn[c].pc = "reading"
    /\ EndsWithKnownTag(conn[c].buffer \o chunk)
    /\ LET a == AfterBreak(conn[c].buffer \o chunk, trie)
       IN  /\ \E closes \in (IF a.conn.exc # "" THEN BOOLEAN ELSE {FALSE}) :
                 conn' = [conn EXCEPT ![c] = [a.conn EXCEPT !.closed = closes]]
           /\ trie' = a.trie
    /\ loads' = LoadsAfterBreak(conn[c].buffer \o chunk, trie, loads)
    /\ UNCHANGED <<posix, parquet, todo, disk, phase, run, trip, api, job, client>>

\* a faulty timeout: the task returns and leaves the transport open
TimeoutNoClose(c) ==
    /\ conn[c].pc = "reading"
    /\ conn' = [conn EXCEPT ![c].pc = "done", ![c].buffer = <<>>]
    /\ UNCHANGED <<posix, parquet, todo, disk, trie, phase, run, trip, api, job, loads, client>>

\* asyncio.TimeoutError in the read loop: writer.close(), return
Timeout(c) ==
    /\ conn[c].pc = "reading"
    /\ conn' = [conn EXCEPT ![c].pc = "done", ![c].buffer = <<>>, ![c].closed = TRUE]
    /\ UNCHANGED <<posix, parquet, todo, disk, trie, phase, run, trip, api, job, loads, client>>

\* a read at the end of the stream, the peer having closed its side: it
\* returns b'', the buffer does not change and the loop goes on with the next
\* such read; no later read waits, so no later read times out
ReadEof(c) ==
    /\ conn[c].pc \in {"reading", "eof"}
    /\ conn' = [conn EXCEPT ![c].pc = "eof"]
    /\ UNCHANGED <<posix, parquet, todo, disk, trie, phase, run, trip, api, job, loads, client>>

\* await writer.drain() returns; writer.close()
DrainClose(c) ==
    /\ conn[c].pc = "drain"
    /\ conn' = [conn EXCEPT ![c].pc = "done", ![c].closed = TRUE]
    /\ UNCHANGED <<posix, parquet, todo, disk, trie, phase, run, trip, api, job, loads, client>>

\* the index build, the server start and the connections
Next ==
    \/ \E f \in DOMAIN parquet : IndexFile(f)
    \/ LoadBloomFilters
    \/ \E c \in Conns : Accept(c)
    \/ \E c \in Conns : \E chunk \in NextChunks(conn[c].buffer) : ReadChunk(c, chunk)
    \/ \E c \in Conns : \E chunk \in NextChunks(conn[c].buffer) : ReadLast(c, chunk)
    \/ \E c \in Conns : ReadEof(c)
    \/ \E c \in Conns : Timeout(c)
    \/ \E c \in Conns : DrainClose(c)

\* the index directories the server is started on
ServerDatasets ==
    { (FileA0 :> <<Col(ColC, "object", <<ValX, ValY>>)>>),
      (FileA0 :> <<Col(ColC, "object", <<ValX>>), Col(ColCN, "int64", <<IntVal(1), IntVal(2), IntVal(3)>>)>>) }

ServerInit == Init /\ parquet \in ServerDatasets

Spec == ServerInit /\ [][Next]_vars

\* the peer reads the reply, so the drain completes and the event loop resumes
\* the task
FairSpec == Spec /\ \A c \in Conns : WF_vars(DrainClose(c))

\* moreover a read that waits for data ends after ten seconds at the latest:
\* asyncio.wait_for raises asyncio.TimeoutError in a task that no data reaches
TimedSpec == FairSpec /\ \A c \in Conns : WF_vars(Timeout(c))

\* the index build and the main program of bloom.py
QueryNext ==
    \/ \E f \in DOMAIN parquet : IndexFile(f)
    \/ LoadFilePaths
    \/ \E q \in Queries, files \in FilesPatterns : ExecuteQuery(q, files)

QuerySpec == Init /\ [][QueryNext]_vars

\* a sender builds a message
FrameInit ==
    /\ posix = TRUE
    /\ parquet = <<>>
    /\ todo = {}
    /\ disk = <<>>
    /\ trie = EmptyTrie
    /\ phase = "build"
    /\ conn = [c \in Conns |-> IdleConn]
    /\ run = NoRun
    /\ trip \in { [NoTrip EXCEPT !.stage = "message", !.m = m] : m \in Messages }
    /\ api = NoApi
    /\ job = NoJob
    /\ loads = NoLoads
    /\ client = NoClient

\* the sender serializes it: message.to_xml()
Serialize ==
    /\ trip.stage = "message"
    /\ trip' = [trip EXCEPT !.stage = "xml", !.xml = ToXml(trip.m)]
    /\ UNCHANGED <<posix, parquet, todo, disk, trie, phase, conn, run, api, job, loads, client>>

\* the receiver parses the XML string: parse_message(xml_string)
Parse ==
    /\ trip.stage = "xml"
    /\ trip' = [trip EXCEPT !.stage = "parsed", !.parsed = ParseMessageXml(trip.xml)]
    /\ UNCHANGED <<posix, parquet, todo, disk, trie, phase, conn, run, api, job, loads, client>>

FrameNext == Serialize \/ Parse

FrameSpec == FrameInit /\ [][FrameNext]_vars

(* ------------------------------------------------------------------ *)
(* A client of the Trie: inserts, then one search                      *)
(* ------------------------------------------------------------------ *)

CPickle == ColC \o DotPickle
SourceUpper == <<"B">>
ShardA == <<"A">>
ShardK == <<"K">>

\* the paths the client inserts: three files in the place <source>/<shard>,
\* one of them under a source that differs by case, a path of two segments
\* and one of four
ApiPaths ==
    { <<Source, ShardA, CPickle>>,
      <<Source, ShardK, CPickle>>,
      <<SourceUpper, ShardA, CPickle>>,
      <<Source, ShardA>>,
      <<Source, ShardA, ShardK, CPickle>> }

\* the file_path arguments: an artifact of the index directory, a file that
\* does not exist, and the default None
ApiLocations == { <<ShardA, CPickle>>, <<ShardK, CPickle>>, NoPath }

\* the index directory of the client: one artifact
ApiDisk == (<<ShardA, CPickle>> :> [type |-> "bloom", filter |-> {<<"x">>}])

\* the path the client searches: [a, "*", c]
ApiSearchPath == <<Source, <<"*">>, CPickle>>

ApiInit ==
    /\ posix \in BOOLEAN
    /\ parquet = <<>>
    /\ todo = {}
    /\ disk = ApiDisk
    /\ trie = EmptyTrie
    /\ phase = "build"
    /\ conn = [c \in Conns |-> IdleConn]
    /\ run = NoRun
    /\ trip = NoTrip
    /\ api = NoApi
    /\ job = NoJob
    /\ loads = NoLoads
    /\ client = NoClient

\* trie.insert(path, file_path)
ApiInsert(path, file_path) ==
    /\ ~api.searched
    /\ Len(api.inserts) < MaxInserts
    /\ trie' = Insert(trie, path, file_path)
    /\ api' = [api EXCEPT !.inserts = Append(@, [path |-> path, file_path |-> file_path])]
    /\ loads' = IF file_path # NoPath THEN LoadCall(loads, file_path) ELSE loads
    /\ UNCHANGED <<posix, parquet, todo, disk, phase, conn, run, trip, job, client>>

\* trie.search(path)
ApiSearch(path) ==
    /\ ~api.searched
    /\ LET hit == DfsSearch(trie, path, 0, <<>>)
       IN  /\ trie' = TrieAfterSearch(trie, hit)
           /\ api' = [api EXCEPT !.searched = TRUE, !.path = path, !.hit = hit,
                                 !.results = Search(trie, path).results]
    /\ loads' = CountLoads(loads, trie, SearchLoads(trie, path))
    /\ UNCHANGED <<posix, parquet, todo, disk, phase, conn, run, trip, job, client>>

\* a path that is a proper prefix of inserted paths
ApiPrefix == <<Source, ShardA>>

TrieNext ==
    \/ \E path \in ApiPaths, file_path \in ApiLocations : ApiInsert(path, file_path)
    \/ \E path \in {ApiSearchPath, ApiPrefix} : ApiSearch(path)

TrieSpec == ApiInit /\ [][TrieNext]_vars

(* ------------------------------------------------------------------ *)
(* The index build step by step, beside a running server               *)
(* ------------------------------------------------------------------ *)

ColCUpper == <<"C">>

\* the input directory of the build: two shard files; A0 has two columns
\* whose names differ by case, which index_file writes to the same file
LiveDataset ==
    (FileA0 :> <<Col(ColC, "object", <<ValX, ValY>>), Col(ColCUpper, "object", <<ValY>>)>>)
    @@ (FileA1 :> <<Col(ColC, "object", <<ValX>>)>>)

\* the searches the clients send
LiveQueries ==
    { Leaf(ColC, ValX),
      Node("AND", <<Leaf(ColC, ValX), Leaf(ColC, ValY)>>) }

\* their files patterns: every shard, the shard A1
LiveFiles == { <<"*">>, ShardA1 }

LiveFrames ==
    { Frame("search", "json", JsonText(SearchInput(Source, files, q))) :
        q \in LiveQueries, files \in LiveFiles }

LiveInit ==
    /\ posix = TRUE
    /\ parquet = LiveDataset
    /\ todo = DOMAIN parquet
    /\ disk = <<>>
    /\ trie = EmptyTrie
    /\ phase = "build"
    /\ conn = [c \in Conns |-> IdleConn]
    /\ run = NoRun
    /\ trip = NoTrip
    /\ api = NoApi
    /\ job = NoJob
    /\ loads = NoLoads
    /\ client = NoClient

\* the file _write_pickle writes for the column the pass stands at
FilterFilePath ==
    <<CreateBloomPath(job.file), StrLower(parquet[job.file][job.column].name) \o DotPickle>>

\* a pass of the loop of index_files begins: _create_bloom_path makes the
\* directories, _read_parquet returns the DataFrame
ReadParquet(f) ==
    /\ job.ended = ""
    /\ job.file = <<>>
    /\ f \in todo
    /\ job' = [job EXCEPT !.file = f, !.column = 1, !.root = TRUE]
    /\ UNCHANGED <<posix, parquet, todo, disk, trie, phase, conn, run, trip, api, loads, client>>

\* _read_parquet raises on a shard file that is no Parquet file: the exception
\* leaves index_file and index_files
ReadParquetRaises(f) ==
    /\ job.ended = ""
    /\ job.file = <<>>
    /\ f \in todo
    /\ job' = [job EXCEPT !.file = f, !.root = TRUE, !.ended = "raised"]
    /\ UNCHANGED <<posix, parquet, todo, disk, trie, phase, conn, run, trip, api, loads, client>>

\* _write_pickle: open(file_path, "wb") creates or empties the file
OpenArtifact ==
    /\ job.ended = ""
    /\ job.file # <<>>
    /\ ~job.open
    /\ disk' = (FilterFilePath :> Truncated) @@ disk
    /\ job' = [job EXCEPT !.open = TRUE]
    /\ UNCHANGED <<posix, parquet, todo, trie, phase, conn, run, trip, api, loads, client>>

\* _write_pickle: pickle.dump wrote the whole filter_data and the file was
\* closed; index_file goes on with the next column, index_files with the next
\* shard file
DumpArtifact(fp) ==
    /\ job.ended = ""
    /\ job.open
    /\ disk' = (FilterFilePath :> FilterData(parquet[job.file][job.column], fp)) @@ disk
    /\ IF job.column < Len(parquet[job.file])
       THEN /\ job' = [job EXCEPT !.column = @ + 1, !.open = FALSE]
            /\ todo' = todo
       ELSE /\ job' = [job EXCEPT !.file = <<>>, !.column = 0, !.open = FALSE]
            /\ todo' = todo \ {job.file}
    /\ UNCHANGED <<posix, parquet, trie, phase, conn, run, trip, api, loads, client>>

\* the build ends inside pickle.dump: the process is killed, or the write
\* raises (no space left on the device)
Interrupt ==
    /\ job.ended = ""
    /\ job.open
    /\ job' = [job EXCEPT !.ended = "killed"]
    /\ UNCHANGED <<posix, parquet, todo, disk, trie, phase, conn, run, trip, api, loads, client>>

\* a faulty start: load_bloom_filters raises when the directory does not exist
StartServerRaises ==
    /\ phase = "build"
    /\ IF ~job.root
       THEN /\ phase' = "failed"
            /\ UNCHANGED <<trie, loads>>
       ELSE /\ \E order \in WalkOrders(disk) :
                  /\ trie' = InsertAll(trie, Source, order, 1)
                  /\ loads' = InsertAllLoads(loads, order, 1)
            /\ phase' = "loaded"
    /\ UNCHANGED <<posix, parquet, todo, disk, conn, run, trip, api, job, client>>

\* server start at any moment of the build: load_bloom_filters(root_directory,
\* bloom_source) returns None when the directory does not exist, else it
\* inserts the .pickle files that os.walk finds
StartServer ==
    /\ phase = "build"
    /\ IF ~job.root
       THEN UNCHANGED <<trie, loads>>
       ELSE \E order \in WalkOrders(disk) :
               /\ trie' = InsertAll(trie, Source, order, 1)
               /\ loads' = InsertAllLoads(loads, order, 1)
    /\ phase' = "loaded"
    /\ UNCHANGED <<posix, parquet, todo, disk, conn, run, trip, api, job, client>>

\* the build and the server side by side; each request arrives in one read
LiveNext ==
    \/ \E f \in DOMAIN parquet : ReadParquet(f)
    \/ \E f \in DOMAIN parquet : ReadParquetRaises(f)
    \/ OpenArtifact
    \/ \E fp \in SUBSET FalsePositiveCandidates : DumpArtifact(fp)
    \/ Interrupt
    \/ StartServer
    \/ \E c \in Conns : Accept(c)
    \/ \E c \in Conns : \E frame \in LiveFrames : ReadLast(c, frame)
    \/ \E c \in Conns : DrainClose(c)

LiveSpec == LiveInit /\ [][LiveNext]_vars

(* ------------------------------------------------------------------ *)
(* Queries whose condition is neither "AND" nor "OR"                   *)
(* ------------------------------------------------------------------ *)

\* internal nodes with the condition "and" and up to two simple rules
OtherConditionQueries ==
    { Node("and", r) : r \in UNION { [1..n -> RuleLeaves] : n \in 0..2 } }

\* the index build and the main program of bloom.py run on such a query
OtherConditionNext ==
    \/ \E f \in DOMAIN parquet : IndexFile(f)
    \/ LoadFilePaths
    \/ \E q \in OtherConditionQueries, files \in FilesPatterns : ExecuteQuery(q, files)

OtherConditionSpec == Init /\ [][OtherConditionNext]_vars

(* ------------------------------------------------------------------ *)
(* One frame in every chunking                                         *)
(* ------------------------------------------------------------------ *)

\* a well-formed search frame whose element holds, after its JSON text, an
\* empty child element: <search format="json">{...}<ping></ping></search>
NestedTagFrame ==
    <<OpenTag("search", "json"),
      Text(JsonText(SearchInput(Source, <<"*">>, Leaf(ColC, ValX)))),
      OpenTag("ping", NoFormat), CloseTag("ping"),
      CloseTag("search")>>

\* the frames whose chunkings are followed
ChunkStreams ==
    { NestedTagFrame, PingFrame,
      Frame("search", "json", JsonText(SearchInput(Source, <<"*">>, Leaf(ColC, ValX)))) }

\* the chunks the transport can deliver next of one of the streams
ChunksOf(streams, buffer) ==
    UNION { { SubSeq(s, Len(buffer) + 1, j) : j \in Len(buffer) + 1..Len(s) } :
            s \in {x \in streams : Len(x) > Len(buffer) /\ SubSeq(x, 1, Len(buffer)) = buffer} }

\* a server started on an index directory that does not exist
ChunkInit ==
    /\ posix \in BOOLEAN
    /\ parquet = <<>>
    /\ todo = {}
    /\ disk = <<>>
    /\ trie = EmptyTrie
    /\ phase = "loaded"
    /\ conn = [c \in Conns |-> IdleConn]
    /\ run = NoRun
    /\ trip = NoTrip
    /\ api = NoApi
    /\ job = NoJob
    /\ loads = NoLoads
    /\ client = NoClient

ChunkNext ==
    \/ \E c \in Conns : Accept(c)
    \/ \E c \in Conns : \E chunk \in ChunksOf(ChunkStreams, conn[c].buffer) : ReadChunk(c, chunk)
    \/ \E c \in Conns : \E chunk \in ChunksOf(ChunkStreams, conn[c].buffer) : ReadLast(c, chunk)
    \/ \E c \in Conns : DrainClose(c)

ChunkSpec == ChunkInit /\ [][ChunkNext]_vars

(* ------------------------------------------------------------------ *)
(* The indexer on one column of any dtype                              *)
(* ------------------------------------------------------------------ *)

\* dtypes of the columns pd.read_parquet returns: those index_file compares
\* equal to float, int or 'datetime64[ns]', narrower numeric dtypes and object
IndexDtypes == {"int64", "int32", "float64", "float32", "datetime64[ns]", "object"}

IndexRows == UNION { [1..n -> {IntVal(1), IntVal(2), IntVal(3)}] : n \in 1..MaxRows }

\* a directory with one shard file of one column
IndexDatasets ==
    { (FileA0 :> <<Col(ColCN, dtype, rows)>>) : dtype \in IndexDtypes, rows \in IndexRows }

IndexInit ==
    /\ posix \in BOOLEAN
    /\ parquet \in IndexDatasets
    /\ todo = DOMAIN parquet
    /\ disk = <<>>
    /\ trie = EmptyTrie
    /\ phase = "build"
    /\ conn = [c \in Conns |-> IdleConn]
    /\ run = NoRun
    /\ trip = NoTrip
    /\ api = NoApi
    /\ job = NoJob
    /\ loads = NoLoads
    /\ client = NoClient

IndexNext == \E f \in DOMAIN parquet : IndexFile(f)

IndexSpec == IndexInit /\ [][IndexNext]_vars

(* ------------------------------------------------------------------ *)
(* bloom_db/client.py: Client.send_message                             *)
(* ------------------------------------------------------------------ *)

\* the messages the client sends: a ping in each format parse_response
\* knows, and in one it does not know
ClientFormats == {"text", "json", "base64", "xml"}

ClientMessages == { TCPMessage("ping", format, <<"h", "i">>) : format \in ClientFormats }

Alive == <<"a", "l", "i", "v", "e">>

\* what the server of one attempt writes before it closes the connection:
\* a JSON reply, a base64 reply, a reply under another tag, nothing
ReplyStreams ==
    { Reply("ping", EnsureJsonOutput(JString(Alive))),
      Reply("ping", B64Text(Alive)),
      ReplyOtherClass("ping", EnsureJsonOutput(JString(Alive))),
      <<>> }

\* the exceptions that leave asyncio.wait_for(asyncio.open_connection(..))
OpenErrors ==
    {"asyncio.TimeoutError", "ConnectionRefusedError", "TimeoutError", "OSError"}

\* the exceptions that leave writer.drain() and
\* asyncio.wait_for(reader.read(1024))
ReadErrors == {"asyncio.TimeoutError", "ConnectionResetError"}

NotResponding == "Exception: Server is not responding."

\* except (asyncio.TimeoutError, ConnectionRefusedError): since Python 3.11
\* asyncio.TimeoutError is the builtin TimeoutError (alias), so the timeout
\* the operating system reports on connect is caught too
Catches(alias, err) ==
    \/ err \in {"asyncio.TimeoutError", "ConnectionRefusedError"}
    \/ alias /\ err = "TimeoutError"

\* 2 ** attempt
RECURSIVE Pow2(_)
Pow2(n) == IF n = 0 THEN 1 ELSE 2 * Pow2(n - 1)

\* buffer.endswith(f"</{message.cls}>")
EndsWithTag(buffer, cls) ==
    buffer # <<>> /\ buffer[Len(buffer)] = CloseTag(cls)

\* buffer.replace(f"<{cls}>", "").replace(f"</{cls}>", "").strip(): what is
\* left of the buffer without the two tags of the class
ResponseString(buffer, cls) ==
    SelectSeq(buffer, LAMBDA token : token \notin {OpenTag(cls, NoFormat), CloseTag(cls)})

\* parse_response(format, response_string): the text returned, the document
\* json.loads returns, the str base64.b64decode(..).decode() returns, or the
\* exception raised
ParseResponse(format, rest) ==
    LET text == IF rest = <<>> THEN RawText(<<>>)
                ELSE IF Len(rest) = 1 /\ rest[1].t = "text" THEN rest[1].text
                ELSE RawText(<<"<">>)
    IN  IF format = "text" THEN [err |-> "", value |-> text]
        ELSE IF format = "json"
        THEN IF text.kind = "json" THEN [err |-> "", value |-> text]
             ELSE [err |-> "JSONDecodeError", value |-> RawText(<<>>)]
        ELSE IF format = "base64"
        THEN IF text.kind = "base64" THEN [err |-> "", value |-> RawText(text.s)]
             ELSE IF text = RawText(<<>>) THEN [err |-> "", value |-> RawText(<<>>)]
             ELSE [err |-> "binascii.Error", value |-> RawText(<<>>)]
        ELSE [err |-> "ValueError", value |-> RawText(<<>>)]

\* the call after an exception left the try block of the attempt: the except
\* clause catches it and sleeps, or it leaves send_message
Failed(cl, err) ==
    IF Catches(cl.alias, err)
    THEN [cl EXCEPT !.pc = "sleep", !.caught = Append(@, err)]
    ELSE [cl EXCEPT !.pc = "done", !.result = err]

\* the call after the read loop broke with this buffer: parse_response, then
\* return response
Broke(cl, buffer) ==
    LET parsed == ParseResponse(cl.message.format, ResponseString(buffer, cl.message.cls))
    IN  IF parsed.err # ""
        THEN [cl EXCEPT !.pc = "done", !.buffer = buffer, !.result = parsed.err]
        ELSE [cl EXCEPT !.pc = "done", !.buffer = buffer, !.result = "returned",
                        !.response = parsed.value]

\* a faulty loop: one pass more than retries
NextAttemptOneMore(cl, attempt) ==
    IF attempt <= cl.retries
    THEN [cl EXCEPT !.pc = "connect", !.attempt = attempt]
    ELSE [cl EXCEPT !.pc = "done", !.attempt = attempt, !.result = NotResponding]

\* the for loop after the pass of this attempt: the next pass, or the raise
\* behind the loop
NextAttempt(cl, attempt) ==
    IF attempt < cl.retries
    THEN [cl EXCEPT !.pc = "connect", !.attempt = attempt]
    ELSE [cl EXCEPT !.pc = "done", !.attempt = attempt, !.result = NotResponding]

\* the client alone, beside an index that is not built
ClientInit ==
    /\ posix = TRUE
    /\ parquet = LiveDataset
    /\ todo = DOMAIN parquet
    /\ disk = <<>>
    /\ trie = EmptyTrie
    /\ phase = "build"
    /\ conn = [c \in Conns |-> IdleConn]
    /\ run = NoRun
    /\ trip = NoTrip
    /\ api = NoApi
    /\ job = NoJob
    /\ loads = NoLoads
    /\ client = NoClient

\* Client(host, port, retries).send_message(message) up to its first await
SendMessage(message, retries, alias) ==
    /\ client.pc = "idle"
    /\ client' = NextAttempt([client EXCEPT !.message = message, !.retries = retries,
                                            !.alias = alias], 0)
    /\ UNCHANGED <<posix, parquet, todo, disk, trie, phase, conn, run, trip, api, job, loads>>

\* asyncio.wait_for(asyncio.open_connection(host, port), timeout) returns a
\* connection to a server, or raises
OpenConnection ==
    /\ client.pc = "connect"
    /\ \/ \E stream \in ReplyStreams :
              client' = [client EXCEPT !.pc = "read", !.opened = @ + 1,
                                       !.stream = stream, !.buffer = <<>>]
       \/ \E err \in OpenErrors :
              client' = Failed([client EXCEPT !.opened = @ + 1], err)
    /\ UNCHANGED <<posix, parquet, todo, disk, trie, phase, conn, run, trip, api, job, loads>>

\* one pass of the read loop: reader.read(1024) returns the next chunk of the
\* stream, b'' at its end
ReadReply ==
    /\ client.pc = "read"
    /\ \E j \in Len(client.buffer)..Len(client.stream) :
          LET buffer == SubSeq(client.stream, 1, j)
          IN  /\ j = Len(client.buffer) => j = Len(client.stream)
              /\ client' = IF j = Len(client.buffer) \/ EndsWithTag(buffer, client.message.cls)
                            THEN Broke(client, buffer)
                            ELSE [client EXCEPT !.buffer = buffer]
    /\ UNCHANGED <<posix, parquet, todo, disk, trie, phase, conn, run, trip, api, job, loads>>

\* writer.drain() or a read raises: the read timed out, the peer reset the
\* connection
ReadFails ==
    /\ client.pc = "read"
    /\ \E err \in ReadErrors : client' = Failed(client, err)
    /\ UNCHANGED <<posix, parquet, todo, disk, trie, phase, conn, run, trip, api, job, loads>>

\* await asyncio.sleep(2 ** attempt) returns and the loop goes on
Sleep ==
    /\ client.pc = "sleep"
    /\ client' = NextAttempt([client EXCEPT !.slept = Append(@, Pow2(client.attempt))],
                             client.attempt + 1)
    /\ UNCHANGED <<posix, parquet, todo, disk, trie, phase, conn, run, trip, api, job, loads>>

ClientNext ==
    \/ \E message \in ClientMessages, retries \in 0..MaxRetries, alias \in BOOLEAN :
          SendMessage(message, retries, alias)
    \/ OpenConnection
    \/ ReadReply
    \/ ReadFails
    \/ Sleep

ClientSpec == ClientInit /\ [][ClientNext]_vars

(* ------------------------------------------------------------------ *)
(* Properties                                                          *)
(* ------------------------------------------------------------------ *)

\* the main program executed its query
Ran == run.files # <<>>

IsLeaf(query) == "column" \in DOMAIN query /\ "value" \in DOMAIN query

RanLeaf == Ran /\ IsLeaf(run.query)

RanNode == Ran /\ ~IsLeaf(run.query) /\ run.query.condition \in Conditions

\* the shard directories of the dataset
Shards == {CreateBloomPath(f) : f \in DOMAIN parquet}

\* the path of a shard directory in the trie, as Trie.search returns it
ShardDir(shard) == StrJoin(Slash, <<Source, shard>>)

\* the id the evaluator emits for the artifacts of a shard
EmittedId(shard) == MatchingFile(ShardDir(shard))

\* the artifact the indexer writes for a column
Artifact(shard, column) == <<shard, StrLower(column) \o DotPickle>>

\* the outcome of rule i of the executed node, evaluated on its own
RuleOutcome(i) == ExecuteQueryV2(run.query.rules[i], Source, run.files, trie)

\* int(s) for the strings of one decimal digit
IsDigit(s) == Len(s) = 1 /\ \E d \in 0..9 : s = IntToStr(d)
ParseDigit(s) == CHOOSE d \in 0..9 : s = IntToStr(d)

\* C1: no false negatives end to end.  For every shard S, every column C of S
\* and every value v of C when the index was built, the leaf {C, str(v)} with a
\* files pattern that matches S returns a set that contains the id of S,
\* whether (S, C) got a Bloom filter or a range filter.
NoFalseNegatives ==
    \A f \in DOMAIN parquet : \A i \in 1..Len(parquet[f]) :
        \A v \in SeqRange(parquet[f][i].rows) :
            ( /\ RanLeaf
              /\ run.query = Leaf(parquet[f][i].name, StrVal(PyStr(v)))
              /\ Fnmatch(CreateBloomPath(f), run.files) )
            => /\ run.outcome.err = ""
               /\ EmittedId(CreateBloomPath(f)) \in run.outcome.files

\* C2: an internal node returns the intersection (AND) or the union (OR) of
\* the results of all its rules, and the empty set when it has no rules; it
\* raises exactly when one of its rules raises.
AndOrFold ==
    RanNode =>
        LET kids == {RuleOutcome(i) : i \in 1..Len(run.query.rules)}
            results == {kid.files : kid \in kids}
        IN  IF \E kid \in kids : kid.err # ""
            THEN run.outcome.err # ""
            ELSE /\ run.outcome.err = ""
                 /\ run.outcome.files =
                       IF run.query.condition = "AND"
                       THEN {x \in UNION results : \A files \in results : x \in files}
                       ELSE UNION results

\* an AND node of two rules returned a non-empty result that is smaller than
\* the result of one of its rules
AndOrFoldWitness ==
    /\ RanNode
    /\ run.query.condition = "AND"
    /\ Len(run.query.rules) = 2
    /\ run.outcome.err = ""
    /\ run.outcome.files # {}
    /\ \E i \in 1..2 : RuleOutcome(i).err = "" /\ RuleOutcome(i).files # run.outcome.files

\* C3: every element of a leaf result is the shard id of a matched artifact:
\* the matched path [source, shard, column_file] without its column_file
\* segment, which names the shard directory.
LeafIdsNameShards ==
    (RanLeaf /\ run.outcome.err = "") =>
        \A id \in run.outcome.files :
            \E shard \in Shards : id = ShardDir(shard) \/ id = shard

\* C4: two different shards never share an id: the size of a leaf result is
\* the number of shards that have an artifact the leaf reaches whose filter
\* accepts the leaf's value.
DistinctShardsDistinctIds ==
    (RanLeaf /\ run.outcome.err = "") =>
        LET pattern == LeafPattern(Source, run.files, run.query.column)
            accepting == { r[1] : r \in { r \in Search(trie, pattern).results :
                              /\ r[2] # None
                              /\ \/ r[2].type = "bloom" /\ BloomTest(r[2], run.query.value)
                                 \/ r[2].type = "range" /\ RangeTest(r[2], run.query.value) } }
        IN  Cardinality(run.outcome.files) = Cardinality(accepting)

\* C5: range leaf correctness.  For a (shard, column) with a range filter
\* [m, M] a leaf {column, v}, v a string, matches the shard iff v parses as a
\* number and m <= parse(v) <= M; the evaluation always returns a result.
RangeLeafCorrect ==
    \A f \in DOMAIN parquet : \A i \in 1..Len(parquet[f]) :
        LET shard == CreateBloomPath(f)
            filter_data == disk[Artifact(shard, parquet[f][i].name)]
        IN  ( /\ RanLeaf
              /\ run.query.column = parquet[f][i].name
              /\ run.query.value.k = "str"
              /\ Fnmatch(shard, run.files)
              /\ filter_data.type = "range" )
            => /\ run.outcome.err = ""
               /\ (EmittedId(shard) \in run.outcome.files)
                  <=> ( /\ IsDigit(run.query.value.s)
                        /\ filter_data.min <= ParseDigit(run.query.value.s)
                        /\ ParseDigit(run.query.value.s) <= filter_data.max )

\* C6: the leaf pattern lower-cases the column.  For every column name C of
\* the data the leaf {C, v} searches [source, files, lower(C) + "*.pickle"]
\* and so reaches the artifact lower(C).pickle of every shard the files
\* pattern matches.
LeafPatternLowerCased ==
    \A f \in DOMAIN parquet : \A i \in 1..Len(parquet[f]) :
        LET shard == CreateBloomPath(f)
            pattern == LeafPattern(Source, run.files, run.query.column)
        IN  ( /\ RanLeaf
              /\ run.query.column = parquet[f][i].name
              /\ Fnmatch(shard, run.files) )
            => /\ pattern = <<Source, run.files, StrLower(run.query.column) \o StarDotPickle>>
               /\ <<Source>> \o Artifact(shard, run.query.column)
                     \in DfsSearch(trie, pattern, 0, <<>>)

\* no shard has an artifact for a column of this name
NeverIndexed(column) ==
    \A shard \in Shards : Artifact(shard, column) \notin DOMAIN disk

\* C7: a leaf whose column was never indexed evaluates to the empty set, and
\* an AND node that contains such a leaf evaluates to the empty set whatever
\* its other rules are.
UnknownColumnEmpty ==
    /\ (RanLeaf /\ NeverIndexed(run.query.column))
          => (run.outcome.err = "" /\ run.outcome.files = {})
    /\ ( /\ RanNode
         /\ run.query.condition = "AND"
         /\ \E i \in 1..Len(run.query.rules) :
               IsLeaf(run.query.rules[i]) /\ NeverIndexed(run.query.rules[i].column) )
          => (run.outcome.err = "" /\ run.outcome.files = {})

\* the outcome of the executed node without its last rule
ShorterOutcome ==
    ExecuteQueryV2(Node(run.query.condition,
                        SubSeq(run.query.rules, 1, Len(run.query.rules) - 1)),
                   Source, run.files, trie)

\* C8 as the specification states it: for every rules list R, the empty list
\* included, and every rule r, AND over R plus r is a subset of AND over R
\* and OR over R plus r is a superset of OR over R.
MonotoneFromEmpty ==
    (RanNode /\ run.query.rules # <<>> /\ run.outcome.err = "") =>
        LET shorter == ShorterOutcome
        IN  /\ shorter.err = ""
            /\ run.query.condition = "AND" => run.outcome.files \subseteq shorter.files
            /\ run.query.condition = "OR" => shorter.files \subseteq run.outcome.files

\* C8: monotonicity.  When a node with the rules R plus r returns a result,
\* the node with the rules R returns one too; for a non-empty R, AND over R
\* plus r is a subset of AND over R; for every R, OR over R plus r is a
\* superset of OR over R.
Monotone ==
    (RanNode /\ run.query.rules # <<>> /\ run.outcome.err = "") =>
        LET shorter == ShorterOutcome
        IN  /\ shorter.err = ""
            /\ (run.query.condition = "AND" /\ Len(run.query.rules) > 1)
                  => run.outcome.files \subseteq shorter.files
            /\ run.query.condition = "OR" => shorter.files \subseteq run.outcome.files

\* an AND node of two rules returned strictly less than the node of its first
\* rule alone returns
MonotoneWitness ==
    /\ RanNode
    /\ run.query.condition = "AND"
    /\ Len(run.query.rules) = 2
    /\ run.outcome.err = ""
    /\ ShorterOutcome.files # run.outcome.files
    /\ ShorterOutcome.files # {}

\* the permutations of 1..n
RulePermutations(n) == {p \in [1..n -> 1..n] : \A i, j \in 1..n : p[i] = p[j] => i = j}

\* C9: the outcome of an AND or OR node, the result or the error, is the same
\* for every permutation of its rules list.
PermutationInvariant ==
    RanNode =>
        \A p \in RulePermutations(Len(run.query.rules)) :
            LET permuted == ExecuteQueryV2(
                                Node(run.query.condition,
                                     [i \in 1..Len(run.query.rules) |-> run.query.rules[p[i]]]),
                                Source, run.files, trie)
            IN  /\ permuted.err = run.outcome.err
                /\ permuted.files = run.outcome.files

\* an OR node of two rules with different non-empty results returned
PermutationWitness ==
    /\ RanNode
    /\ run.query.condition = "OR"
    /\ Len(run.query.rules) = 2
    /\ run.outcome.err = ""
    /\ RuleOutcome(1).files # RuleOutcome(2).files
    /\ RuleOutcome(1).files # {}
    /\ RuleOutcome(2).files # {}

\* the handler of connection c was run and returned normally
Dispatched(c) == conn[c].msg # NoMsg /\ conn[c].exc = ""

\* C10: one request, one reply, close.  On a connection whose frame was
\* dispatched to a registered handler that returned normally the server wrote
\* exactly one reply, <CLASS>REPLY</CLASS> with the class of the request, and
\* nothing else; from then on it neither reads nor writes on the connection;
\* and it eventually closes the connection.
OneRequestOneReplyClose ==
    /\ [](\A c \in Conns : Dispatched(c) =>
            /\ Len(conn[c].out) = 1
            /\ Len(conn[c].out[1]) = 3
            /\ conn[c].out[1][1] = OpenTag(conn[c].msg.cls, NoFormat)
            /\ conn[c].out[1][2].t = "text"
            /\ conn[c].out[1][3] = CloseTag(conn[c].msg.cls))
    /\ [][\A c \in Conns : Dispatched(c) =>
            /\ conn'[c].pc \in {"drain", "done"}
            /\ conn'[c].out = conn[c].out
            /\ conn'[c].msg = conn[c].msg
            /\ Len(conn'[c].buffer) <= Len(conn[c].buffer)]_vars
    /\ \A c \in Conns : Dispatched(c) ~> (conn[c].pc = "done" /\ conn[c].closed)

\* a search was answered and its connection closed
OneRequestOneReplyCloseWitness ==
    \E c \in Conns :
        /\ Dispatched(c)
        /\ conn[c].msg.cls = "search"
        /\ conn[c].pc = "done"
        /\ conn[c].closed
        /\ Len(conn[c].out) = 1

\* the task of connection c left the read loop with a frame in its buffer
Received(c) == conn[c].pc \in {"drain", "done"} /\ EndsWithKnownTag(conn[c].buffer)

\* ... and parse_message returned a message for it
Decoded(c) ==
    /\ Received(c)
    /\ WellFormed(conn[c].buffer)
    /\ ParseRaises(conn[c].buffer) = ""

\* ... which is a search whose payload fails the validation of search_handler
InvalidSearch(c) ==
    /\ Decoded(c)
    /\ ParseMessage(conn[c].buffer).cls = "search"
    /\ ~ValidSearchInput(ParseMessage(conn[c].buffer).payload)

InvalidSearchReply ==
    Reply("search", JsonText(JObject([error |-> "Invalid search_input"])))

\* C11: a search whose decoded payload is no object or lacks one of the keys
\* bloom_source, files, query is answered with exactly
\* <search>{"error": "Invalid search_input"}</search>; no exception of the
\* query evaluator ends the task, and the step that answers leaves the store
\* as it was.
InvalidSearchAnswered ==
    /\ [](\A c \in Conns : InvalidSearch(c) =>
            /\ conn[c].out = <<InvalidSearchReply>>
            /\ conn[c].exc = "")
    /\ [][\A c \in Conns : (~InvalidSearch(c) /\ InvalidSearch(c)') => trie' = trie]_vars

\* each kind of invalid search was answered: a payload that is a JSON string,
\* an object without its query, a text payload
InvalidSearchAnsweredWitness ==
    /\ conn["c1"].pc = "done"
    /\ InvalidSearch("c1")
    /\ ParseMessage(conn["c1"].buffer).payload.j = "object"
    /\ InvalidSearch("c2")
    /\ ParseMessage(conn["c2"].buffer).payload.j = "string"
    /\ conn["c2"].out = <<InvalidSearchReply>>

\* the reply frame of ping_handler
AliveReply == Reply("ping", JsonText(JObject([response |-> "alive"])))

\* C12: every well-formed ping frame, whatever its format and payload, an
\* empty payload included, is answered with <ping>{"response": "alive"}</ping>.
PingAnswered ==
    \A c \in Conns :
        (/\ Received(c)
         /\ WellFormed(conn[c].buffer)
         /\ conn[c].buffer[1].cls = "ping") => conn[c].out = <<AliveReply>>

\* C13: when a read returns zero bytes before the buffer ends with the closing
\* tag of a registered class, the task eventually closes the connection and
\* ends, and it has written no reply.
EofCloses ==
    \A c \in Conns :
        (conn[c].pc = "eof") ~>
            (conn[c].pc = "done" /\ conn[c].closed /\ conn[c].out = <<>>)

\* the task of connection c ended in the read loop: by asyncio.TimeoutError
TimedOut(c) == conn[c].pc = "done" /\ ~EndsWithKnownTag(conn[c].buffer)

\* C14: when no chunk arrives within the timeout while the server accumulates
\* a frame, the server closes the connection, has written no reply and has
\* invoked no handler; the step of the timeout leaves the store alone, and
\* nothing happens on the connection afterwards.
TimeoutClosesSilently ==
    /\ [](\A c \in Conns : TimedOut(c) =>
            /\ conn[c].closed
            /\ conn[c].out = <<>>
            /\ conn[c].msg = NoMsg
            /\ conn[c].exc = "")
    /\ [][\A c \in Conns :
            /\ (conn[c].pc = "reading" /\ TimedOut(c)') => trie' = trie
            /\ TimedOut(c) => conn'[c] = conn[c]]_vars

\* a connection timed out while the other one had sent a part of its frame
TimeoutClosesSilentlyWitness ==
    /\ TimedOut("c1")
    /\ conn["c1"].closed
    /\ conn["c2"].pc = "reading"
    /\ conn["c2"].buffer # <<>>

\* C15: when the buffer ends with the closing tag of a registered class and is
\* not well-formed XML, the server writes no reply, invokes no handler and
\* closes the connection.
MalformedClosesSilently ==
    \A c \in Conns :
        (Received(c) /\ ~WellFormed(conn[c].buffer)) =>
            /\ conn[c].out = <<>>
            /\ conn[c].msg = NoMsg
            /\ conn[c].closed

\* parse_message raised while it decoded the payload of the frame of c
Undecodable(c) ==
    /\ Received(c)
    /\ WellFormed(conn[c].buffer)
    /\ ParseRaises(conn[c].buffer) \in {"JSONDecodeError", "binascii.Error"}

\* C16: a frame that is well-formed XML and whose payload does not decode in
\* the format it declares leaves its connection closed and without a reply.
UndecodableClosesSilently ==
    \A c \in Conns : Undecodable(c) => (conn[c].out = <<>> /\ conn[c].closed)

\* a complete frame of a class without a handler is all that c received
UnknownClass(c) ==
    /\ WellFormed(conn[c].buffer)
    /\ conn[c].buffer[1].cls \notin Handlers

\* C17: a complete well-formed frame whose class has no registered handler is
\* never answered, and the server closes its connection.
UnknownClassClosesSilently ==
    /\ [](\A c \in Conns : UnknownClass(c) => conn[c].out = <<>>)
    /\ \A c \in Conns :
          UnknownClass(c) ~> (conn[c].pc = "done" /\ conn[c].closed /\ conn[c].out = <<>>)

\* what the handler of the message of c returns before ensure_json_output
HandlerResult(c) ==
    (IF conn[c].msg.cls = "search"
     THEN SearchHandler(conn[c].msg, trie)
     ELSE PingHandler(conn[c].msg, trie)).result

\* the JSON document in the reply written on c
ReplyBody(c) == conn[c].out[1][2].text.doc

\* C18: the body of a reply is a JSON object: the result of the handler if it
\* is an object, and {"response": result} for every other result, a string
\* or an array.
NonObjectsWrapped ==
    \A c \in Conns : Dispatched(c) =>
        /\ ReplyBody(c).j = "object"
        /\ HandlerResult(c).j = "object" => ReplyBody(c) = HandlerResult(c)
        /\ HandlerResult(c).j = "string" =>
              ReplyBody(c).fields = [response |-> HandlerResult(c).s]
        /\ HandlerResult(c).j = "array" =>
              ReplyBody(c).fields = [response |-> HandlerResult(c)]

\* the handler of connection c was run and raised
HandlerRaised(c) == conn[c].msg # NoMsg /\ conn[c].exc # ""

\* C20: when a handler raises while it processes a dispatched request, no
\* reply, not even a part of one, is written and the connection is closed.
HandlerRaisedClosesSilently ==
    \A c \in Conns : HandlerRaised(c) => (conn[c].out = <<>> /\ conn[c].closed)

\* the payload the claim expects back: the JSON value for json, the payload
\* itself otherwise
ExpectedPayload(m) ==
    IF m.format = "json" THEN JsonLoads(m.payload).value ELSE m.payload

\* C19: frame round trip.  parse_message(m.to_xml()) has the class and the
\* format of m and the payload of m (for json, the value the payload denotes),
\* whatever characters the payload holds, the XML special characters
\* included.
FrameRoundTrip ==
    trip.stage = "parsed" =>
        /\ trip.parsed.err = ""
        /\ trip.parsed.message.cls = trip.m.cls
        /\ trip.parsed.message.format = trip.m.format
        /\ trip.parsed.message.payload = ExpectedPayload(trip.m)

\* C21: glob semantics of Trie.search.  search([a, "*", c]) returns one result
\* for each terminal node whose path is [a, x, c] for a single segment x, and
\* nothing else: no node of another depth, no node whose first or last
\* segment is not a or c.
GlobSemantics ==
    (api.searched /\ api.path = ApiSearchPath) =>
        /\ api.hit = { p \in DOMAIN trie :
                         /\ Len(p) = 3
                         /\ trie[p].end_of_file
                         /\ p[1] = api.path[1]
                         /\ p[3] = api.path[3] }
        /\ Cardinality(api.results) = Cardinality(api.hit)

\* C25: insert does not load.  After inserts and before any search the
\* bloom_filter of every node is None: no artifact was read.
InsertDoesNotLoad ==
    ~api.searched => \A p \in DOMAIN trie : trie[p].bloom_filter = None

\* the trie after the calls insert(calls[i].path, calls[i].file_path) for
\* i, i + 1, ... in turn
RECURSIVE InsertCalls(_, _, _)
InsertCalls(t, calls, i) ==
    IF i > Len(calls) THEN t
    ELSE InsertCalls(Insert(t, calls[i].path, calls[i].file_path), calls, i + 1)

\* the calls in the order o of their indexes
Reordered(calls, o) == [i \in 1..Len(calls) |-> calls[o[i]]]

\* the inserts made so far have pairwise distinct paths
DistinctPaths ==
    \A i, j \in 1..Len(api.inserts) :
        api.inserts[i].path = api.inserts[j].path => i = j

\* C26: insertion is order-independent.  Inserts with pairwise distinct paths,
\* applied to an empty trie in any order, give the trie that the order of the
\* client gave: same nodes, same end_of_file and same file_path on every node.
InsertOrderIndependent ==
    (~api.searched /\ DistinctPaths) =>
        \A o \in Orders(1..Len(api.inserts)) :
            InsertCalls(EmptyTrie, Reordered(api.inserts, o), 1) = trie

\* C27: after any sequence of inserts every terminal node has a file_path,
\* and it is the file_path that an insert of that node's path passed.
TerminalHasItsLocation ==
    ~api.searched =>
        \A p \in DOMAIN trie :
            trie[p].end_of_file =>
                /\ trie[p].file_path # NoPath
                /\ \E i \in 1..Len(api.inserts) :
                      /\ api.inserts[i].path = p
                      /\ api.inserts[i].file_path = trie[p].file_path

\* connection c ran its handler in this step and the handler returned
Answers(c) ==
    /\ conn[c].pc = "reading"
    /\ conn'[c].pc \in {"drain", "done"}
    /\ conn'[c].msg # NoMsg
    /\ conn'[c].exc = ""

\* the reply to message when its handler runs alone on the trie t
ReplyOn(message, t) == <<Reply(message.cls, RunHandler(message, t).response)>>

LoadedNode(p) == trie[p].end_of_file /\ trie[p].bloom_filter # None

\* C23: a loaded filter is reused.  Once a terminal node holds a filter, no
\* step, a search that reaches the node included, calls load_bloom_filter on
\* the node's file again, and the node keeps that very filter, whatever
\* happens to the file.
LoadedFilterReused ==
    [][\A p \in DOMAIN trie : LoadedNode(p) =>
          /\ trie'[p].bloom_filter = trie[p].bloom_filter
          /\ LoadCount(loads', trie[p].file_path) = LoadCount(loads, trie[p].file_path)]_vars

\* the artifact of shard A0 was loaded once, at server start, and written
\* again since with another content; two searches reached its node and were
\* answered from the filter in memory
LoadedFilterReusedWitness ==
    /\ <<Source, ShardA0, CPickle>> \in DOMAIN trie
    /\ LoadedNode(<<Source, ShardA0, CPickle>>)
    /\ disk[<<ShardA0, CPickle>>] \notin {Truncated, trie[<<Source, ShardA0, CPickle>>].bloom_filter}
    /\ loads[<<ShardA0, CPickle>>] = [calls |-> 1, loaded |-> 1]
    /\ \A c \in Conns :
          /\ conn[c].pc = "done"
          /\ conn[c].msg.cls = "search"
          /\ conn[c].out = ReplyOn(conn[c].msg, trie)
          /\ conn[c].out # <<Reply("search", JsonText(JArray({})))>>

\* a call of load_bloom_filter on path returned None
LoadFailed(path) == loads[path].loaded < loads[path].calls

\* C24: a failed load is final.  No search ends with an exception, and an
\* artifact whose load failed is not loaded again: load_bloom_filter was
\* called on it that one time and never returned a filter, so that its node
\* stays out of the results.
FailedLoadIsFinal ==
    /\ \A c \in Conns : conn[c].exc = ""
    /\ \A path \in DOMAIN loads :
          LoadFailed(path) => loads[path] = [calls |-> 1, loaded |-> 0]

EmptyReply == <<Reply("search", JsonText(JArray({})))>>

IndexFilesOver ==
    \/ job.ended = "raised"
    \/ job.ended = "" /\ todo = {} /\ job.file = <<>>

\* C29: a shard that fails does not stop the build.  When index_files is
\* over, every shard file of the directory was indexed, except the one whose
\* reading or indexing failed.
ShardFailureIsSkipped ==
    IndexFilesOver => todo \subseteq {job.file}

\* C30: no partial artifact.  At every moment of the build, and after a build
\* that was interrupted, each file under a final artifact name
\* <output_dir>/<shard_id>/<column_lower>.pickle holds a whole pickled filter.
NoPartialArtifact ==
    \A p \in DOMAIN disk : disk[p] # Truncated

\* the dtype is an integer, a floating or a timestamp dtype
NumericDtype(dtype) ==
    dtype \in {"int64", "int32", "float64", "float32", "datetime64[ns]"}

\* the filter the claim selects for a column
SelectedRange(col) ==
    NumericDtype(col.dtype) /\ Cardinality(SeqRange(col.rows)) > range_filter_threshold

\* C31: filter selection.  The artifact of a column is a range filter with
\* the minimum and the maximum of the column exactly when the dtype is
\* integer, floating or timestamp and the column has more than
\* range_filter_threshold distinct values; otherwise it is a Bloom filter
\* that holds str(v) for every value v of the column.
FilterSelection ==
    \A f \in DOMAIN parquet \ todo :
        \A i \in 1..Len(parquet[f]) :
            LET col == parquet[f][i]
                filter_data == disk[Artifact(CreateBloomPath(f), col.name)]
            IN  IF SelectedRange(col)
                THEN /\ filter_data.type = "range"
                     /\ filter_data.min = MinOf({v.n : v \in SeqRange(col.rows)})
                     /\ filter_data.max = MaxOf({v.n : v \in SeqRange(col.rows)})
                ELSE /\ filter_data.type = "bloom"
                     /\ {PyStr(v) : v \in SeqRange(col.rows)} \subseteq filter_data.filter

\* what holds: the selection for the dtypes that compare equal to float, int
\* or 'datetime64[ns]' and for object columns
FilterSelectionWideDtypes ==
    (\A f \in DOMAIN parquet : \A i \in 1..Len(parquet[f]) :
        parquet[f][i].dtype \notin {"int32", "float32"}) => FilterSelection

\* the terminal nodes of the trie strictly below the path prefix
StoredBelow(prefix) ==
    { p \in DOMAIN trie :
        /\ trie[p].end_of_file
        /\ Len(p) > Len(prefix)
        /\ SubSeq(p, 1, Len(prefix)) = prefix }

\* C32: the docstring of Trie.search.  A search whose path is a proper prefix
\* of stored paths returns every stored file path below the prefix, one
\* result for each.
PrefixSearchReturnsAll ==
    (api.searched /\ api.path = ApiPrefix) =>
        /\ StoredBelow(ApiPrefix) \subseteq api.hit
        /\ Cardinality(api.results) >= Cardinality(StoredBelow(ApiPrefix))

\* the columns of the leaves of a query
RECURSIVE LeafColumns(_)
LeafColumns(query) ==
    IF "column" \in DOMAIN query THEN {query.column}
    ELSE UNION { LeafColumns(query.rules[i]) : i \in 1..Len(query.rules) }

\* the terminal nodes that the searches of a search input reach in the trie
Reached(search_input) ==
    UNION { DfsSearch(trie, LeafPattern(search_input.bloom_source, search_input.files, column),
                      0, <<>>) : column \in LeafColumns(search_input.query) }

\* C33: after startup the store structure is read-only.  No step of the
\* started server adds, removes or re-keys a node or changes the end_of_file
\* or the file_path of a node; a bloom_filter changes only in a step that
\* runs a search, only on a terminal node the search reaches, and only from
\* None to what load_bloom_filter returns for the node's file.
StoreReadOnly ==
    [][phase = "loaded" =>
          /\ DOMAIN trie' = DOMAIN trie
          /\ \A p \in DOMAIN trie :
                /\ trie'[p].end_of_file = trie[p].end_of_file
                /\ trie'[p].file_path = trie[p].file_path
                /\ trie'[p].bloom_filter # trie[p].bloom_filter =>
                      /\ trie[p].end_of_file
                      /\ trie[p].bloom_filter = None
                      /\ trie'[p].bloom_filter = LoadBloomFilter(trie[p].file_path)
                      /\ \E c \in Conns :
                            /\ Answers(c)
                            /\ p \in Reached(conn'[c].msg.payload.fields)]_vars

\* the server started while A0's artifact was being written again; a search
\* of shard A1 was answered and left the node of A0 without its filter,
\* although the file is whole by now; the other search loaded nothing either
StoreReadOnlyWitness ==
    /\ <<Source, ShardA0, CPickle>> \in DOMAIN trie
    /\ <<Source, ShardA1, CPickle>> \in DOMAIN trie
    /\ trie[<<Source, ShardA0, CPickle>>].bloom_filter = None
    /\ trie[<<Source, ShardA1, CPickle>>].bloom_filter # None
    /\ disk[<<ShardA0, CPickle>>] # Truncated
    /\ \A c \in Conns :
          /\ conn[c].pc = "done"
          /\ conn[c].msg.payload.fields.files = ShardA1
          /\ conn[c].out # EmptyReply

\* C34: the two versions of execute_query_v2 agree.  Whatever the index, the
\* files pattern and the query tree, the version of bloom_db/explorer.py run
\* on the same store raises what the version of petals/bloom.py raised, or
\* returns the same set.
VersionsAgree ==
    Ran =>
        /\ ExplorerExecuteQueryV2(run.query, Source, run.files, trie).err = run.outcome.err
        /\ ExplorerExecuteQueryV2(run.query, Source, run.files, trie).files = run.outcome.files

\* what holds: the two versions raise alike and match the same number of shards
VersionsAgreeOnCount ==
    Ran =>
        /\ ExplorerExecuteQueryV2(run.query, Source, run.files, trie).err = run.outcome.err
        /\ (ExplorerExecuteQueryV2(run.query, Source, run.files, trie).files = {})
              = (run.outcome.files = {})

\* C35: frame detection does not depend on chunking.  When the read loop of
\* a connection broke, what the task did (the reply it wrote, the exception
\* that ended it) is what it does when the whole frame arrives in one read,
\* the frame with the closing tag of a registered class inside included.
ChunkingIndependent ==
    \A c \in Conns :
        Received(c) =>
            \E s \in ChunkStreams :
                /\ Len(s) >= Len(conn[c].buffer)
                /\ SubSeq(s, 1, Len(conn[c].buffer)) = conn[c].buffer
                /\ conn[c].out = AfterBreak(s, trie).conn.out
                /\ conn[c].exc = AfterBreak(s, trie).conn.exc

\* what holds: the same for the frames without a closing tag inside
ChunkingIndependentPlain ==
    \A c \in Conns :
        (Received(c) /\ conn[c].buffer \in ChunksOf(ChunkStreams \ {NestedTagFrame}, <<>>)) =>
            /\ conn[c].buffer \in ChunkStreams
            /\ conn[c].out = AfterBreak(conn[c].buffer, trie).conn.out

\* the filter accepts the value
Accepts(filter_data, value) ==
    \/ filter_data.type = "bloom" /\ BloomTest(filter_data, value)
    \/ filter_data.type = "range" /\ ~RangeRaises(filter_data, value)
                                  /\ RangeTest(filter_data, value)

\* C36: a leaf consults only the filter of the column it names.  Every id in
\* the result of the leaf {column: C, value: v} is the id of a shard that the
\* files pattern matches and that has a column named exactly C whose
\* artifact accepts v.
LeafConsultsOwnColumn ==
    (RanLeaf /\ run.outcome.err = "") =>
        \A id \in run.outcome.files :
            \E f \in DOMAIN parquet : \E i \in 1..Len(parquet[f]) :
                /\ id = EmittedId(CreateBloomPath(f))
                /\ Fnmatch(CreateBloomPath(f), run.files)
                /\ parquet[f][i].name = run.query.column
                /\ Accepts(disk[Artifact(CreateBloomPath(f), parquet[f][i].name)], run.query.value)

\* the executed query is an internal node whose condition is no known one
RanOtherCondition ==
    Ran /\ ~IsLeaf(run.query) /\ run.query.condition \notin Conditions

\* C37: an internal node whose condition is neither "AND" nor "OR" raises no
\* error and returns the result of its first rule alone, the empty set
\* without rules; its other rules do not affect the outcome.
OtherConditionFirstRule ==
    RanOtherCondition =>
        /\ run.outcome.err = ""
        /\ run.outcome.files =
              IF run.query.rules = <<>> THEN {}
              ELSE ExecuteQueryV2(run.query.rules[1], Source, run.files, trie).files

\* what holds: when the node returns, it returns the result of its first rule
OtherConditionFirstRuleIfReturns ==
    (RanOtherCondition /\ run.outcome.err = "") =>
        run.outcome.files =
            IF run.query.rules = <<>> THEN {}
            ELSE ExecuteQueryV2(run.query.rules[1], Source, run.files, trie).files

\* the path index_file writes the artifact of column i of shard file f to
ArtifactOf(f, i) ==
    <<CreateBloomPath(f), StrLower(parquet[f][i].name) \o DotPickle>>

\* the (shard file, column) pairs of the input directory
ShardColumns ==
    UNION { { <<f, i>> : i \in 1..Len(parquet[f]) } : f \in DOMAIN parquet }

\* index_files returned after its last pass
IndexFilesReturned == job.ended = "" /\ todo = {} /\ job.file = <<>>

\* C38: no artifact is overwritten within one index_files run.  Two different
\* (shard file, column) pairs are never written to the same path, so after
\* the run every pair has its own artifact, the filter of its column.
NoArtifactOverwritten ==
    IndexFilesReturned =>
        /\ \A a \in ShardColumns, b \in ShardColumns :
              a # b => ArtifactOf(a[1], a[2]) # ArtifactOf(b[1], b[2])
        /\ \A a \in ShardColumns :
              /\ ArtifactOf(a[1], a[2]) \in DOMAIN disk
              /\ \E fp \in SUBSET FalsePositiveCandidates :
                    disk[ArtifactOf(a[1], a[2])] = FilterData(parquet[a[1]][a[2]], fp)

\* the exception is a timeout or a refused connection
TimeoutOrRefused(err) ==
    err \in {"asyncio.TimeoutError", "TimeoutError", "ConnectionRefusedError"}

\* C39: Client.send_message makes at most retries connection attempts.  It
\* starts attempt i + 1 only after attempt i failed with a timeout or a
\* refused connection and the back-off of 2 ** i seconds (i from 0) is over;
\* it returns the parsed response of the first attempt that completes; it
\* raises "Server is not responding." only after exactly retries such
\* failures; any other error ends the call without a further attempt.
SendMessageRetries ==
    /\ client.opened <= client.retries
    /\ \A i \in 1..Len(client.caught) : TimeoutOrRefused(client.caught[i])
    /\ client.opened <= Len(client.caught) + 1
    /\ client.opened <= Len(client.slept) + 1
    /\ Len(client.slept) <= Len(client.caught)
    /\ \A i \in 1..Len(client.slept) : client.slept[i] = Pow2(i - 1)
    /\ client.result = "returned" =>
          /\ client.opened = Len(client.caught) + 1
          /\ client.response =
                ParseResponse(client.message.format,
                              ResponseString(client.buffer, client.message.cls)).value
          /\ ParseResponse(client.message.format,
                           ResponseString(client.buffer, client.message.cls)).err = ""
    /\ client.result = NotResponding =>
          /\ Len(client.caught) = client.retries
          /\ client.opened = client.retries
    /\ client.result \notin {"", "returned", NotResponding} =>
          /\ client.pc = "done"
          /\ ~TimeoutOrRefused(client.result) \/ ~client.alias
          /\ client.opened = Len(client.caught) + 1

\* the second attempt returned the reply of the server after the first one
\* timed out and the call slept one second
SendMessageRetriesWitness ==
    /\ client.result = "returned"
    /\ client.caught = <<"asyncio.TimeoutError">>
    /\ client.slept = <<1>>
    /\ client.opened = 2
    /\ client.response = EnsureJsonOutput(JString(Alive))

====
